---------------------------- MODULE Spec2Model ----------------------------
(***************************************************************************)
(* Model of the protection subsystem of quantum-floor-ai:                  *)
(*   QUANTUM_LOCK_SYSTEM/CORE_LOCK/quantum_lock.py   (QuantumLock)         *)
(*   QUANTUM_LOCK_SYSTEM/CORE_LOCK/fernet_manager.py (FernetManager)       *)
(*   QUANTUM_LOCK_SYSTEM/CORE_LOCK/license_check.py  (LicenseChecker)      *)
(*   QUANTUM_LOCK_SYSTEM/CORE_LOCK/self_destruct.py  (SelfDestructSystem)  *)
(*   QUANTUM_LOCK_SYSTEM/CORE_LOCK/integrity_verifier.py                   *)
(*   QUANTUM_LOCK_SYSTEM/LICENSING/license_generator.py                    *)
(*   QUANTUM_LOCK_SYSTEM/LICENSING/activation_server.py                    *)
(*   QUANTUM_LOCK_SYSTEM/INTEGRATION/encrypt_model.py                      *)
(*                                                                         *)
(* Strings are sequences of one-character strings, so that split, lower,   *)
(* isdigit and int are computed as the code computes them.  Fernet is the  *)
(* symbolic (ideal) authenticated cipher: a token names the key, the       *)
(* plaintext and the IV it was made from, and whether it is still intact.  *)
(***************************************************************************)
EXTENDS Integers, Sequences, FiniteSets, TLC

VARIABLES
    now,        \* datetime.now(): <<year, pos>>, see Instants
    lockFile,   \* content of the file at lock_path, or NoFile
    lk,         \* the QuantumLock instance (alive = constructed)
    lkRes,      \* outcome of the last QuantumLock operation
    lkTampered, \* _trigger_tamper_alert has run on this instance
    lkLastLic,  \* license key most recently passed to verify_license
    lkVerifiedOnce, \* verify_license has returned True on this instance
                \* since it was constructed and since its last close()
    fm,         \* the FernetManager instance
    fmRes,      \* outcome of the last FernetManager operation
    fmCleared,  \* clear() has run and no key has been set up since
    lc,         \* the LicenseChecker instance
    lcRes,      \* outcome of the last LicenseChecker operation
    sd,         \* the SelfDestructSystem instance
    sdEnv,      \* the protected files and the tracer of the process
    sdRes,      \* outcome of the last SelfDestructSystem operation
    sdRuns,     \* how many times the body of trigger() has executed
    sdSnap,     \* the list a caller holds from its last get_events()
    verifier,   \* the IntegrityVerifier instance
    ivEnv,      \* the files under base_path and the manifest file
    ivRes,      \* outcome of the last IntegrityVerifier operation
    ivHashLog,  \* (content, digest) of every calculate_hash that returned
    adb,        \* the activations table of the ActivationDatabase
    adbRes,     \* the last request to the ActivationHandler and its response
    rc          \* the callers sharing the LicenseChecker: where each one is
                \* between can_make_request and record_request

lockVars == <<lockFile, lk, lkRes, lkTampered, lkLastLic, lkVerifiedOnce>>
fmVars   == <<fm, fmRes, fmCleared>>
lcVars   == <<lc, lcRes>>
sdVars   == <<sd, sdEnv, sdRes, sdRuns, sdSnap>>
ivVars   == <<verifier, ivEnv, ivRes, ivHashLog>>
adbVars  == <<adb, adbRes>>
rcVars   == <<rc>>
vars     == <<now, lockFile, lk, lkRes, lkTampered, lkLastLic, lkVerifiedOnce,
              fm, fmRes, fmCleared, lc, lcRes, sd, sdEnv, sdRes, sdRuns,
              sdSnap, verifier, ivEnv, ivRes, ivHashLog, adb, adbRes, rc>>

\* what the operations of one component leave alone
outsideLock == <<now, fmVars, lcVars, sdVars, ivVars, adbVars, rcVars>>
outsideFm   == <<now, lockVars, lcVars, sdVars, ivVars, adbVars, rcVars>>
outsideLc   == <<lockVars, fmVars, sdVars, ivVars, adbVars, rcVars>>
outsideSd   == <<now, lockVars, fmVars, lcVars, ivVars, adbVars, rcVars>>
outsideIv   == <<now, lockVars, fmVars, lcVars, sdVars, adbVars, rcVars>>
outsideAdb  == <<now, lockVars, fmVars, lcVars, sdVars, ivVars, rcVars>>
outsideRc   == <<now, lockVars, fmVars, sdVars, ivVars, adbVars>>

---------------------------------------------------------------------------
(* Bounds of the model *)

NumKeys  == 2      \* distinct keys Fernet.generate_key() can return
MaxBuf   == 1      \* plaintext buffers are 0..MaxBuf (0 is b"")
MaxIV    == 1      \* IVs / timestamps a token can carry: 0..MaxIV
NumYears == 2      \* the clock runs over FirstYear .. FirstYear+NumYears-1
MaxOld   == 1      \* length of the old_keys list of setup_key_rotation

---------------------------------------------------------------------------
(* Strings: str.split, str.lower, str.isdigit, int *)

Digits == <<"0","1","2","3","4","5","6","7","8","9">>
UpperChars == <<"A","B","C","D","E","F","G","H","I","J","K","L","M",
                "N","O","P","Q","R","S","T","U","V","W","X","Y","Z">>
LowerChars == <<"a","b","c","d","e","f","g","h","i","j","k","l","m",
                "n","o","p","q","r","s","t","u","v","w","x","y","z">>

IndexOf(seq, c) == IF \E i \in DOMAIN seq : seq[i] = c
                   THEN CHOOSE i \in DOMAIN seq : seq[i] = c
                   ELSE 0

IsDigitChar(c) == IndexOf(Digits, c) > 0
DigitVal(c)    == IndexOf(Digits, c) - 1

\* str.isdigit(): non-empty and every character a digit
IsDigit(s) == Len(s) > 0 /\ \A i \in DOMAIN s : IsDigitChar(s[i])

\* int(s) for a string of digits
RECURSIVE ToInt(_)
ToInt(s) == IF Len(s) = 0 THEN 0
            ELSE 10 * ToInt(SubSeq(s, 1, Len(s) - 1)) + DigitVal(s[Len(s)])

LowerChar(c) == IF IndexOf(UpperChars, c) > 0
                THEN LowerChars[IndexOf(UpperChars, c)] ELSE c
\* str.lower()
Lower(s) == [i \in DOMAIN s |-> LowerChar(s[i])]

\* str.split("-"): always at least one part ("" gives [""])
RECURSIVE Split(_)
Split(s) ==
    IF \A i \in DOMAIN s : s[i] # "-" THEN <<s>>
    ELSE LET j == CHOOSE i \in DOMAIN s :
                     s[i] = "-" /\ \A h \in 1..(i-1) : s[h] # "-"
         IN <<SubSeq(s, 1, j - 1)>> \o Split(SubSeq(s, j + 1, Len(s)))

\* "-".join(parts)
RECURSIVE Join(_)
Join(parts) == IF Len(parts) = 0 THEN <<>>
               ELSE IF Len(parts) = 1 THEN parts[1]
               ELSE parts[1] \o <<"-">> \o Join(Tail(parts))

UpperChar(c) == IF IndexOf(LowerChars, c) > 0
                THEN UpperChars[IndexOf(LowerChars, c)] ELSE c
\* str.upper()
Upper(s) == [i \in DOMAIN s |-> UpperChar(s[i])]

\* str(n) for n >= 0
RECURSIVE ToStr(_)
ToStr(n) == IF n < 10 THEN <<Digits[n + 1]>>
            ELSE ToStr(n \div 10) \o <<Digits[(n % 10) + 1]>>

\* str.strip(): leading and trailing whitespace removed
IsSpace(c) == c \in {" ", "\n", "\t", "\r"}
RECURSIVE Strip(_)
Strip(s) == IF Len(s) = 0 THEN s
            ELSE IF IsSpace(s[1]) THEN Strip(Tail(s))
            ELSE IF IsSpace(s[Len(s)]) THEN Strip(SubSeq(s, 1, Len(s) - 1))
            ELSE s

\* str.split("\n"): always at least one line
RECURSIVE SplitLines(_)
SplitLines(s) ==
    IF \A i \in DOMAIN s : s[i] # "\n" THEN <<s>>
    ELSE LET j == CHOOSE i \in DOMAIN s :
                     s[i] = "\n" /\ \A h \in 1..(i-1) : s[h] # "\n"
         IN <<SubSeq(s, 1, j - 1)>> \o SplitLines(SubSeq(s, j + 1, Len(s)))

---------------------------------------------------------------------------
(* The clock.  An instant is <<year, pos>>: pos 0 is any time of the year  *)
(* before Dec 31 23:59:59.000000, pos 1 is exactly that instant, pos 2 is  *)
(* later within the same second (datetime.now() carries microseconds).     *)

FirstYear == 2025
Years     == FirstYear .. (FirstYear + NumYears - 1)
Instants  == Years \X (0..2)

\* faulty variant: the comparison is a >= b
After_OrEqual(a, b) == a[1] > b[1] \/ (a[1] = b[1] /\ a[2] >= b[2])

\* datetime comparison a > b
After(a, b) == a[1] > b[1] \/ (a[1] = b[1] /\ a[2] > b[2])

\* datetime(year, 12, 31, 23, 59, 59)
EndOfYear(year) == <<year, 1>>


---------------------------------------------------------------------------
(* LicenseChecker.check_license_key (license_check.py) *)

Unknown      == <<"u","n","k","n","o","w","n">>
TypeTrial    == <<"t","r","i","a","l">>
TypeStandard == <<"s","t","a","n","d","a","r","d">>
TypeEnterprise == <<"e","n","t","e","r","p","r","i","s","e">>
NoInstant    == <<0, 0>>

\* LicenseInfo(...) with the dataclass defaults
LicenseInfo(valid, ltype, model, expires, features, maxreq, err) ==
    [is_valid |-> valid, license_type |-> ltype, model |-> model,
     expires |-> expires, features |-> features, max_requests |-> maxreq,
     error |-> err]

\* _get_features
GetFeatures(ltype) ==
    IF ltype = TypeTrial THEN <<"api">>
    ELSE IF ltype = TypeStandard THEN <<"api", "voice", "batch">>
    ELSE IF ltype = TypeEnterprise THEN <<"api", "voice", "batch", "unlimited">>
    ELSE <<"api">>

\* _get_request_limit
GetRequestLimit(ltype) ==
    IF ltype = TypeTrial THEN 1000
    ELSE IF ltype = TypeStandard THEN 100000
    ELSE IF ltype = TypeEnterprise THEN -1
    ELSE 100

\* faulty variant: the number of segments is not checked
CheckLicenseKey_NoLengthCheck(key, t) ==
    LET parts == Split(key)
        year  == IF IsDigit(parts[Len(parts)])
                 THEN ToInt(parts[Len(parts)]) ELSE FirstYear
    IN IF After(t, EndOfYear(year))
       THEN LicenseInfo(FALSE, TypeTrial, key, EndOfYear(year), <<>>, 0,
                        "License has expired")
       ELSE LicenseInfo(TRUE, TypeTrial, key, EndOfYear(year),
                        GetFeatures(TypeTrial), GetRequestLimit(TypeTrial), "")

\* the value check_license_key(license_key) returns at instant t
CheckLicenseKey(key, t) ==
    LET parts == Split(key) IN
    IF Len(parts) < 3
    THEN LicenseInfo(FALSE, Unknown, Unknown, NoInstant, <<>>, 0,
                     "Invalid license key format")
    ELSE
      LET model == Join(SubSeq(parts, 1, 3))
          ltype == IF Len(parts) > 3 THEN Lower(parts[4]) ELSE TypeTrial
          year  == IF IsDigit(parts[Len(parts)])
                   THEN ToInt(parts[Len(parts)]) ELSE FirstYear
      IN
      IF year < 1 \/ year > 9999   \* datetime() raises ValueError, caught
      THEN LicenseInfo(FALSE, Unknown, Unknown, NoInstant, <<>>, 0,
                       "License validation error")
      ELSE IF After(t, EndOfYear(year))
      THEN LicenseInfo(FALSE, ltype, model, EndOfYear(year), <<>>, 0,
                       "License has expired")
      ELSE LicenseInfo(TRUE, ltype, model, EndOfYear(year),
                       GetFeatures(ltype), GetRequestLimit(ltype), "")

\* license_check.verify_license(license_key): the convenience function
LicenseValid(key, t) == CheckLicenseKey(key, t).is_valid

---------------------------------------------------------------------------
(* License key strings the callers pass *)

W_REGIS   == <<"R","E","G","I","S">>
W_7B      == <<"7","B">>
W_C       == <<"C">>
W_LICENSE == <<"L","I","C","E","N","S","E">>
W_TRIAL   == <<"T","R","I","A","L">>
W_TEST    == <<"T","E","S","T">>
W_KEY     == <<"K","E","Y">>
W_2025    == <<"2","0","2","5">>
W_2020    == <<"2","0","2","0">>
W_2026    == <<"2","0","2","6">>

KeyTrial2025 == Join(<<W_REGIS, W_7B, W_C, W_LICENSE, W_TRIAL, W_2025>>)
KeyTrial2026 == Join(<<W_REGIS, W_7B, W_C, W_LICENSE, W_TRIAL, W_2026>>)
KeyTrial2020 == Join(<<W_REGIS, W_7B, W_C, W_LICENSE, W_TRIAL, W_2020>>)
KeyTest      == Join(<<W_TEST, W_LICENSE, W_KEY>>)
KeyGarbage   == W_KEY
KeyEmpty     == <<>>
KeyTwoParts  == Join(<<W_REGIS, W_7B>>)

LicenseKeys == {KeyTrial2025, KeyTrial2026, KeyTrial2020, KeyTest,
                KeyGarbage, KeyEmpty}

---------------------------------------------------------------------------
(* Fernet (cryptography.fernet), symbolically.  Key bytes are              *)
(* <<kind, a, b>>: "rand" a key from Fernet.generate_key(), "kdf" a key    *)
(* derived from password a and salt b, "bad" a byte string of length a     *)
(* that Fernet() rejects, "none" Python's None.                            *)

KeyLen   == 44     \* length of a urlsafe-base64 Fernet key
MagicLen == 16     \* len(b"QUANTUM_LOCK_V1:")

NoKey        == <<"none", 0, 0>>
RandKey(i)   == <<"rand", i, 0>>
BadBytes(n)  == <<"bad", n, 0>>
GenKeys      == {RandKey(i) : i \in 1..NumKeys}
BytesLen(k)  == IF k[1] \in {"rand", "kdf"} THEN KeyLen ELSE k[2]

\* Fernet(key) raises ValueError unless key is 32 url-safe base64-encoded bytes
FernetAccepts(k) == k[1] \in {"rand", "kdf"}

\* byte buffers: raw plaintext p, or a Fernet token
NoData       == [t |-> "none", k |-> NoKey, p |-> 0, iv |-> 0, ok |-> TRUE]
Raw(p)       == [t |-> "raw", k |-> NoKey, p |-> p, iv |-> 0, ok |-> TRUE]
Tok(k, p, iv, ok) == [t |-> "tok", k |-> k, p |-> p, iv |-> iv, ok |-> ok]
\* a key (and the salt it was derived with) handed back to the caller
KeyData(k, salt) == [t |-> "key", k |-> k, p |-> salt, iv |-> 0, ok |-> TRUE]
Buffers      == {Raw(p) : p \in 0..MaxBuf}
IVs          == 0..MaxIV
Tokens(keys) == {Tok(k, p, iv, ok) : k \in keys, p \in 0..MaxBuf,
                                     iv \in IVs, ok \in BOOLEAN}

\* Fernet(k).encrypt(data)
FernetEncrypt(k, data, iv) == Tok(k, data.p, iv, TRUE)

\* Fernet(k).decrypt(token): the plaintext, or InvalidToken
FernetDecrypts(k, x) == x.t = "tok" /\ x.ok /\ x.k = k
FernetDecrypt(k, x)  == IF FernetDecrypts(k, x) THEN Raw(x.p) ELSE NoData

---------------------------------------------------------------------------
(* QuantumLock (quantum_lock.py) *)

Magic     == "QUANTUM_LOCK_V1:"
Prefixes  == {Magic, "QFLOOR_LOCK_V1", ""}
PrefixLen(p) == IF p = Magic THEN MagicLen ELSE IF p = "" THEN 0 ELSE 14

\* content of the file at lock_path: the leading bytes and what follows
\* them; gen records that generate_lock wrote this content
NoFile    == [exists |-> FALSE, prefix |-> "", payload |-> NoKey, gen |-> FALSE]
File(p, k, g) == [exists |-> TRUE, prefix |-> p, payload |-> k, gen |-> g]
Payloads  == GenKeys \cup {BadBytes(0), BadBytes(KeyLen)}
\* files the environment can put at lock_path: the magic followed by any
\* payload, or another prefix followed by nothing or by a whole key
ForeignFiles == {File(Magic, k, FALSE) : k \in Payloads}
                \cup {File(p, k, FALSE) : p \in Prefixes \ {Magic},
                                         k \in {BadBytes(0), RandKey(1)}}
FileLen(f) == PrefixLen(f.prefix) + BytesLen(f.payload)

\* data.startswith(b"QUANTUM_LOCK_V1:")
StartsWithMagic(f) == f.prefix = Magic

\* self._license_data
NoLicense == [set |-> FALSE, model |-> <<>>, type |-> <<>>, year |-> <<>>,
              raw |-> <<>>]
\* _parse_license
ParseLicense(key) ==
    LET parts == Split(key) IN
    [set   |-> TRUE,
     model |-> IF Len(parts) > 0 THEN parts[1] ELSE Unknown,
     type  |-> IF Len(parts) > 1 THEN parts[2] ELSE Unknown,
     year  |-> IF Len(parts) > 2 THEN parts[3] ELSE Unknown,
     raw   |-> key]

LockLicenses == {KeyTrial2026, KeyTrial2020, KeyGarbage}
NoLic        == <<"-">>      \* no verify_license call yet

\* __init__
NewLock   == [alive |-> TRUE, fernet |-> NoKey, verified |-> FALSE,
              license |-> NoLicense]
NoLock    == [alive |-> FALSE, fernet |-> NoKey, verified |-> FALSE,
              license |-> NoLicense]

\* outcome of a call: ok = no exception, ret = boolean return value,
\* val = bytes returned, err = exception raised, alerts = tamper-hook calls
Res(op, arg, ok, ret, val, err, alerts) ==
    [op |-> op, arg |-> arg, ok |-> ok, ret |-> ret, val |-> val,
     err |-> err, alerts |-> alerts]
NoRes == Res("init", NoData, TRUE, FALSE, NoData, "", 0)

DecryptInputs == Buffers \cup Tokens(GenKeys)

\* faulty variant: the prefix is compared with the class constant LOCK_MAGIC
VerifyLockFile_ClassMagic(f) ==
    IF ~f.exists THEN "FileNotFoundError"
    ELSE IF f.prefix # "QFLOOR_LOCK_V1" THEN "ValueError"
    ELSE ""

\* _verify_lock_file: "" when the file passes, else the exception raised
VerifyLockFile(f) ==
    IF ~f.exists THEN "FileNotFoundError"
    ELSE IF ~StartsWithMagic(f) THEN "ValueError"
    ELSE ""

\* faulty variant: the license string is validated before the lock is opened
VerifyLicenseOutcome_ChecksLicense(l, f, lic) ==
    IF ~f.exists
    THEN [lk |-> [l EXCEPT !.verified = FALSE, !.fernet = NoKey], ret |-> FALSE]
    ELSE IF ~StartsWithMagic(f) \/ ~LicenseValid(lic, now)
    THEN [lk |-> l, ret |-> FALSE]
    ELSE IF ~FernetAccepts(f.payload)
    THEN [lk |-> [l EXCEPT !.verified = FALSE, !.fernet = NoKey], ret |-> FALSE]
    ELSE [lk |-> [l EXCEPT !.fernet = f.payload, !.verified = TRUE,
                           !.license = ParseLicense(lic)],
          ret |-> TRUE]

\* faulty variant: stored_key keeps the magic prefix, so Fernet(stored_key) raises
VerifyLicenseOutcome_NoSlice(l, f, lic) ==
    IF ~f.exists
    THEN [lk |-> [l EXCEPT !.verified = FALSE, !.fernet = NoKey], ret |-> FALSE]
    ELSE IF ~StartsWithMagic(f)
    THEN [lk |-> l, ret |-> FALSE]
    ELSE [lk |-> [l EXCEPT !.verified = FALSE, !.fernet = NoKey], ret |-> FALSE]

\* verify_license: the instance after the call and the value returned
VerifyLicenseOutcome(l, f, lic) ==
    IF ~f.exists                       \* open() raises, caught by except
    THEN [lk |-> [l EXCEPT !.verified = FALSE, !.fernet = NoKey], ret |-> FALSE]
    ELSE IF ~StartsWithMagic(f)        \* early return False
    THEN [lk |-> l, ret |-> FALSE]
    ELSE IF ~FernetAccepts(f.payload)  \* Fernet(stored_key) raises, caught
    THEN [lk |-> [l EXCEPT !.verified = FALSE, !.fernet = NoKey], ret |-> FALSE]
    ELSE [lk |-> [l EXCEPT !.fernet = f.payload, !.verified = TRUE,
                           !.license = ParseLicense(lic)],
          ret |-> TRUE]

\* encrypt
LockEncryptOutcome(l, data, iv) ==
    IF l.fernet = NoKey
    THEN Res("encrypt", data, FALSE, FALSE, NoData, "RuntimeError", 0)
    ELSE Res("encrypt", data, TRUE, FALSE, FernetEncrypt(l.fernet, data, iv), "", 0)

\* faulty variant: decrypt without the "not verified" guard
LockDecryptOutcome_NoGuard(l, x) ==
    IF FernetDecrypts(l.fernet, x)
    THEN Res("decrypt", x, TRUE, FALSE, FernetDecrypt(l.fernet, x), "", 0)
    ELSE Res("decrypt", x, FALSE, FALSE, NoData, "InvalidToken", 1)

\* faulty variant: InvalidToken is re-raised without calling _trigger_tamper_alert
LockDecryptOutcome_NoAlert(l, x) ==
    IF ~l.verified \/ l.fernet = NoKey
    THEN Res("decrypt", x, FALSE, FALSE, NoData, "RuntimeError", 0)
    ELSE IF FernetDecrypts(l.fernet, x)
    THEN Res("decrypt", x, TRUE, FALSE, FernetDecrypt(l.fernet, x), "", 0)
    ELSE Res("decrypt", x, FALSE, FALSE, NoData, "InvalidToken", 0)

\* decrypt
LockDecryptOutcome(l, x) ==
    IF ~l.verified \/ l.fernet = NoKey
    THEN Res("decrypt", x, FALSE, FALSE, NoData, "RuntimeError", 0)
    ELSE IF FernetDecrypts(l.fernet, x)
    THEN Res("decrypt", x, TRUE, FALSE, FernetDecrypt(l.fernet, x), "", 0)
    ELSE Res("decrypt", x, FALSE, FALSE, NoData, "InvalidToken", 1)

\* verify_integrity
VerifyIntegrityOutcome(actual, expected) ==
    IF actual = -1
    THEN Res("verify_integrity", NoData, FALSE, FALSE, NoData,
             "FileNotFoundError", 0)
    ELSE IF actual # expected
    THEN Res("verify_integrity", NoData, TRUE, FALSE, NoData, "", 1)
    ELSE Res("verify_integrity", NoData, TRUE, TRUE, NoData, "", 0)

\* _trigger_tamper_alert: prints to stderr, changes no field of the instance
TriggerTamperAlert(l) == l

\* faulty variant: close() clears the flag and leaves the cipher context
CloseLock_KeepsCipher(l) == [l EXCEPT !.verified = FALSE,
                                      !.license = NoLicense]

\* close
CloseLock(l) == [l EXCEPT !.fernet = NoKey, !.verified = FALSE,
                          !.license = NoLicense]

\* ---- actions ----

\* QuantumLock.generate_lock(output_path); open() raises when the path is
\* not writable and the file is left as it was
GenerateLock ==
    \E k \in GenKeys, writable \in BOOLEAN :
        /\ lockFile' = IF writable THEN File(Magic, k, TRUE) ELSE lockFile
        /\ lkRes' = Res("generate_lock", NoData, writable, FALSE,
                        IF writable THEN KeyData(k, 0) ELSE NoData,
                        IF writable THEN "" ELSE "OSError", 0)
        /\ UNCHANGED <<lk, lkTampered, lkLastLic, lkVerifiedOnce, outsideLock>>

\* encrypt_model(source_path, output_path, lock_path): generate_lock, then
\* FernetManager().load_key(key) and manager.encrypt(source_data)
EncryptModel ==
    \E k \in GenKeys, b \in Buffers, iv \in IVs :
        /\ lockFile' = File(Magic, k, TRUE)
        /\ lkRes' = Res("encrypt_model", b, TRUE, FALSE,
                        FernetEncrypt(k, b, iv), "", 0)
        /\ UNCHANGED <<lk, lkTampered, lkLastLic, lkVerifiedOnce, outsideLock>>

\* the environment replaces or removes the file at lock_path
WriteLockFile ==
    \E f \in ForeignFiles \cup {NoFile} :
        /\ lockFile' = f
        /\ lkRes' = Res("env", NoData, TRUE, FALSE, NoData, "", 0)
        /\ UNCHANGED <<lk, lkTampered, lkLastLic, lkVerifiedOnce, outsideLock>>

\* QuantumLock(lock_path): a new instance, or an exception and no instance
Construct ==
    LET e == VerifyLockFile(lockFile) IN
    /\ lkRes' = Res("construct", NoData, e = "", FALSE, NoData, e, 0)
    /\ IF e = ""
       THEN /\ lk' = NewLock /\ lkTampered' = FALSE /\ lkLastLic' = NoLic
            /\ lkVerifiedOnce' = FALSE
       ELSE UNCHANGED <<lk, lkTampered, lkLastLic, lkVerifiedOnce>>
    /\ UNCHANGED <<lockFile, outsideLock>>

VerifyLicense ==
    /\ lk.alive
    /\ \E lic \in LockLicenses :
        LET o == VerifyLicenseOutcome(lk, lockFile, lic) IN
        /\ lk' = o.lk
        /\ lkLastLic' = lic
        /\ lkVerifiedOnce' = (lkVerifiedOnce \/ o.ret)
        /\ lkRes' = Res("verify_license", NoData, TRUE, o.ret, NoData, "", 0)
    /\ UNCHANGED <<lockFile, lkTampered, outsideLock>>

Encrypt ==
    /\ lk.alive
    /\ \E b \in Buffers, iv \in (IF lk.fernet = NoKey THEN {0} ELSE IVs) :
           lkRes' = LockEncryptOutcome(lk, b, iv)
    /\ UNCHANGED <<lockFile, lk, lkTampered, lkLastLic, lkVerifiedOnce, outsideLock>>

Decrypt ==
    /\ lk.alive
    /\ \E x \in DecryptInputs :
        /\ lkRes' = LockDecryptOutcome(lk, x)
        /\ lk' = IF lkRes'.alerts > 0 THEN TriggerTamperAlert(lk) ELSE lk
        /\ lkTampered' = (lkTampered \/ lkRes'.alerts > 0)
    /\ UNCHANGED <<lockFile, lkLastLic, lkVerifiedOnce, outsideLock>>

\* verify_integrity(file_path, expected_hash): actual is the SHA-256 of the
\* file's content, -1 when there is no file (open() raises)
VerifyIntegrity ==
    /\ lk.alive
    /\ \E actual \in -1..1, expected \in 0..1 :
        LET o == VerifyIntegrityOutcome(actual, expected) IN
        /\ lkRes' = o
        /\ lk' = IF o.alerts > 0 THEN TriggerTamperAlert(lk) ELSE lk
        /\ lkTampered' = (lkTampered \/ o.alerts > 0)
    /\ UNCHANGED <<lockFile, lkLastLic, lkVerifiedOnce, outsideLock>>

Close ==
    /\ lk.alive
    /\ lk' = CloseLock(lk)
    /\ lkRes' = Res("close", NoData, TRUE, FALSE, NoData, "", 0)
    /\ lkVerifiedOnce' = FALSE
    /\ UNCHANGED <<lockFile, lkTampered, lkLastLic, outsideLock>>

---------------------------------------------------------------------------
(* FernetManager (fernet_manager.py) *)

NumPw   == 1       \* passwords 1..NumPw
NumSalt == 2       \* salts 1..NumSalt

Passwords == 1..NumPw
Salts     == 1..NumSalt
\* base64.urlsafe_b64encode(PBKDF2HMAC(SHA256, 32, salt, 480000).derive(pw))
Kdf(pw, salt) == <<"kdf", pw, salt>>
KdfKeys   == {Kdf(pw, salt) : pw \in Passwords, salt \in Salts}

\* __init__ and clear(): _fernet, _multi_fernet (<<>> is None), _key
NewFm == [fernet |-> NoKey, multi |-> <<>>, key |-> NoKey]

Range(q) == {q[i] : i \in DOMAIN q}

\* faulty variant: clear() leaves the rotation set in place
ClearFm_KeepsMulti(m) == [m EXCEPT !.fernet = NoKey, !.key = NoKey]

\* clear
ClearFm(m) == NewFm

\* load_key: _key is assigned before Fernet(key) can raise
LoadKey(m, k) ==
    IF FernetAccepts(k) THEN [m EXCEPT !.key = k, !.fernet = k]
    ELSE [m EXCEPT !.key = k]

\* encrypt
FmEncryptOutcome(m, data, iv) ==
    IF m.fernet = NoKey
    THEN Res("encrypt", data, FALSE, FALSE, NoData, "ValueError", 0)
    ELSE Res("encrypt", data, TRUE, FALSE, FernetEncrypt(m.fernet, data, iv), "", 0)

\* faulty variant: decrypt under Fernet(self._key) instead of self._fernet
FmDecryptOutcome_UsesKey(m, x) ==
    IF m.fernet = NoKey
    THEN Res("decrypt", x, FALSE, FALSE, NoData, "ValueError", 0)
    ELSE IF FernetDecrypts(m.key, x)
    THEN Res("decrypt", x, TRUE, FALSE, FernetDecrypt(m.key, x), "", 0)
    ELSE Res("decrypt", x, FALSE, FALSE, NoData, "InvalidToken", 0)

\* faulty variant: the token is decrypted without checking its signature
FmDecryptOutcome_NoAuth(m, x) ==
    IF m.fernet = NoKey
    THEN Res("decrypt", x, FALSE, FALSE, NoData, "ValueError", 0)
    ELSE IF x.t = "tok"
    THEN Res("decrypt", x, TRUE, FALSE, Raw(x.p), "", 0)
    ELSE Res("decrypt", x, FALSE, FALSE, NoData, "InvalidToken", 0)

\* decrypt
FmDecryptOutcome(m, x) ==
    IF m.fernet = NoKey
    THEN Res("decrypt", x, FALSE, FALSE, NoData, "ValueError", 0)
    ELSE IF FernetDecrypts(m.fernet, x)
    THEN Res("decrypt", x, TRUE, FALSE, FernetDecrypt(m.fernet, x), "", 0)
    ELSE Res("decrypt", x, FALSE, FALSE, NoData, "InvalidToken", 0)

\* setup_key_rotation: every Fernet(k) is built before any field is assigned
SetupKeyRotation(m, new, olds) ==
    IF \A k \in {new} \cup Range(olds) : FernetAccepts(k)
    THEN [fernet |-> new, multi |-> <<new>> \o olds, key |-> new]
    ELSE m

\* MultiFernet.rotate(token): decrypt under any key of the list, encrypt
\* under the first one
MultiDecrypts(keys, x) == \E i \in DOMAIN keys : FernetDecrypts(keys[i], x)

\* faulty variant: the token is re-encrypted under the key that decrypted it
FmRotateOutcome_KeepsKey(m, x, iv) ==
    IF m.multi = <<>>
    THEN Res("rotate_encrypt", x, FALSE, FALSE, NoData, "ValueError", 0)
    ELSE IF MultiDecrypts(m.multi, x)
    THEN Res("rotate_encrypt", x, TRUE, FALSE,
             FernetEncrypt(x.k, Raw(x.p), iv), "", 0)
    ELSE Res("rotate_encrypt", x, FALSE, FALSE, NoData, "InvalidToken", 0)

FmRotateOutcome(m, x, iv) ==
    IF m.multi = <<>>
    THEN Res("rotate_encrypt", x, FALSE, FALSE, NoData, "ValueError", 0)
    ELSE IF MultiDecrypts(m.multi, x)
    THEN Res("rotate_encrypt", x, TRUE, FALSE,
             FernetEncrypt(m.multi[1], Raw(x.p), iv), "", 0)
    ELSE Res("rotate_encrypt", x, FALSE, FALSE, NoData, "InvalidToken", 0)

\* encrypt_file / decrypt_file / decrypt_to_memory.  f is the content of the
\* file at input_path (NoData: no such file, open() raises); writable tells
\* whether output_path can be opened for writing.  In the outcome, ret
\* records that output_path was written and val holds the bytes written
\* (encrypt_file, decrypt_file) or returned (decrypt_to_memory).
WithFile(op, f, o, writes, writable) ==
    IF f = NoData
    THEN Res(op, f, FALSE, FALSE, NoData, "FileNotFoundError", 0)
    ELSE IF ~o.ok
    THEN Res(op, f, FALSE, FALSE, NoData, o.err, 0)
    ELSE IF writes /\ ~writable
    THEN Res(op, f, FALSE, FALSE, NoData, "OSError", 0)
    ELSE Res(op, f, TRUE, writes, o.val, "", 0)

FmEncryptFileOutcome(m, f, iv, writable) ==
    WithFile("encrypt_file", f, FmEncryptOutcome(m, f, iv), TRUE, writable)
FmDecryptFileOutcome(m, f, writable) ==
    WithFile("decrypt_file", f, FmDecryptOutcome(m, f), TRUE, writable)
FmDecryptToMemoryOutcome(m, f) ==
    WithFile("decrypt_to_memory", f, FmDecryptOutcome(m, f), FALSE, FALSE)

\* what a caller passes to decrypt / rotate_encrypt: plaintext, or a token
\* (intact or altered) made under a generated key or under the active key
FmDecryptInputs(m) == Buffers \cup Tokens(GenKeys \cup ({m.fernet} \ {NoKey}))
\* old_keys: up to MaxOld keys, or a list holding a malformed key
OldKeyLists == UNION {[1..n -> GenKeys] : n \in 0..MaxOld} \cup {<<BadBytes(0)>>}

\* ---- actions ----

FmGenerateKey ==
    \E k \in GenKeys :
        /\ fm' = [fm EXCEPT !.key = k, !.fernet = k]
        /\ fmRes' = Res("generate_key", NoData, TRUE, FALSE, KeyData(k, 0), "", 0)
        /\ fmCleared' = FALSE
        /\ UNCHANGED outsideFm

FmLoadKey ==
    \E k \in GenKeys \cup {BadBytes(0)} :
        /\ fm' = LoadKey(fm, k)
        /\ fmRes' = Res("load_key", KeyData(k, 0), FernetAccepts(k), FALSE, NoData,
                        IF FernetAccepts(k) THEN "" ELSE "ValueError", 0)
        /\ fmCleared' = FALSE
        /\ UNCHANGED outsideFm

\* the arguments of derive_key_from_password: the password and the salt
DeriveArgs(pw, given) ==
    [t |-> "key", k |-> NoKey, p |-> given, iv |-> pw, ok |-> TRUE]

\* faulty variant: a salt is always drawn, the one passed is ignored
DeriveSalt_AlwaysFresh(given, fresh) == fresh

\* the salt used: the one passed, or os.urandom(16) when it is None (0)
DeriveSalt(given, fresh) == IF given = 0 THEN fresh ELSE given

\* derive_key_from_password(password, salt): salt 0 is None (os.urandom)
FmDeriveKey ==
    \E pw \in Passwords, given \in {0} \cup Salts, fresh \in Salts :
        LET salt == DeriveSalt(given, fresh)
            key  == Kdf(pw, salt)
        IN
        /\ fm' = LoadKey(fm, key)
        /\ fmRes' = Res("derive_key", DeriveArgs(pw, given), TRUE, FALSE,
                        KeyData(key, salt), "", 0)
        /\ fmCleared' = FALSE
        /\ UNCHANGED outsideFm

FmEncrypt ==
    \E b \in Buffers, iv \in (IF fm.fernet = NoKey THEN {0} ELSE IVs) :
        /\ fmRes' = FmEncryptOutcome(fm, b, iv)
        /\ UNCHANGED <<fm, fmCleared, outsideFm>>

FmDecrypt ==
    \E x \in FmDecryptInputs(fm) :
        /\ fmRes' = FmDecryptOutcome(fm, x)
        /\ UNCHANGED <<fm, fmCleared, outsideFm>>

\* the IV and the writability of output_path matter only when a token is made
FmEncryptFile ==
    \E f \in Buffers \cup {NoData} :
        /\ \E iv \in (IF f = NoData \/ fm.fernet = NoKey THEN {0} ELSE IVs),
              writable \in (IF f = NoData \/ fm.fernet = NoKey
                            THEN {TRUE} ELSE BOOLEAN) :
               fmRes' = FmEncryptFileOutcome(fm, f, iv, writable)
        /\ UNCHANGED <<fm, fmCleared, outsideFm>>

FmDecryptFile ==
    \E f \in FmDecryptInputs(fm) \cup {NoData} :
        /\ \E writable \in (IF FmDecryptOutcome(fm, f).ok
                            THEN BOOLEAN ELSE {TRUE}) :
               fmRes' = FmDecryptFileOutcome(fm, f, writable)
        /\ UNCHANGED <<fm, fmCleared, outsideFm>>

FmDecryptToMemory ==
    \E f \in FmDecryptInputs(fm) \cup {NoData} :
        /\ fmRes' = FmDecryptToMemoryOutcome(fm, f)
        /\ UNCHANGED <<fm, fmCleared, outsideFm>>

FmSetupKeyRotation ==
    \E new \in GenKeys \cup {BadBytes(0)}, olds \in OldKeyLists :
        LET good == \A k \in {new} \cup Range(olds) : FernetAccepts(k) IN
        /\ fm' = SetupKeyRotation(fm, new, olds)
        /\ fmRes' = Res("setup_key_rotation", KeyData(new, 0), good, FALSE, NoData,
                        IF good THEN "" ELSE "ValueError", 0)
        /\ fmCleared' = FALSE
        /\ UNCHANGED outsideFm

\* the IV of the new token is drawn only when a token is made
FmRotateEncrypt ==
    \E x \in FmDecryptInputs(fm) :
        /\ \E iv \in (IF MultiDecrypts(fm.multi, x) THEN IVs ELSE {0}) :
               fmRes' = FmRotateOutcome(fm, x, iv)
        /\ UNCHANGED <<fm, fmCleared, outsideFm>>

FmClear ==
    /\ fm' = ClearFm(fm)
    /\ fmRes' = Res("clear", NoData, TRUE, FALSE, NoData, "", 0)
    /\ fmCleared' = TRUE
    /\ UNCHANGED outsideFm

---------------------------------------------------------------------------
(* LicenseGenerator.generate (LICENSING/license_generator.py) *)

W_QUANTUM    == <<"Q","U","A","N","T","U","M">>
W_FLOOR      == <<"F","L","O","O","R">>

\* config.model: the default "QUANTUM-FLOOR" and the name of a shipped model
ModelFloor == Join(<<W_QUANTUM, W_FLOOR>>)
ModelRegis == Join(<<W_REGIS, W_7B, W_C>>)
ModelNames == {ModelFloor, ModelRegis}
LicenseTypes == {TypeTrial, TypeStandard, TypeEnterprise}

\* _hash_customer(customer_id): the first 6 characters of the base32 text
\* of 4 digest bytes, so any 6 characters of A-Z2-7; <<>> is no customer_id
NoCustomer     == <<>>
CustomerHashes == {<<"M","F","R","G","G","Z">>, <<"2","3","4","5","6","7">>}

\* (datetime.now() + timedelta(days=duration_days)).year for a duration of
\* at least a day: the year of t, or the next one when the addition crosses
\* the end of the year (always so from Dec 31 23:59:59 on)
ExpireYear(t, crosses) == IF t[2] > 0 \/ crosses THEN t[1] + 1 ELSE t[1]

\* the key generate(config) returns
Generate(model, ltype, year, hash) ==
    Join(<<Upper(model), W_LICENSE, Upper(ltype), ToStr(year)>>
         \o (IF hash = NoCustomer THEN <<>> ELSE <<hash>>))

---------------------------------------------------------------------------
(* LicenseChecker (license_check.py) *)

MaxCount == 102    \* record_request is modelled while _request_count < MaxCount

KeyFloorTrial2025 == Generate(ModelFloor, TypeTrial, 2025, NoCustomer)
KeyFloorEnt2026   == Generate(ModelFloor, TypeEnterprise, 2026, NoCustomer)

\* keys a caller passes to check_license_key
LcKeys == {KeyTrial2025, KeyTrial2020, KeyFloorTrial2025, KeyFloorEnt2026,
           KeyGarbage}

FeatureNames == {"api", "voice", "batch", "unlimited"}

\* LicenseInfo() with every default
DefaultInfo == LicenseInfo(FALSE, Unknown, Unknown, NoInstant, <<>>, 0, "")
ErrorInfo(err) == LicenseInfo(FALSE, Unknown, Unknown, NoInstant, <<>>, 0, err)

\* __init__: _license_info is None (has = FALSE), _request_count = 0
NewChecker == [has |-> FALSE, info |-> DefaultInfo, count |-> 0]

\* outcome of a call: key = the key examined, info = the LicenseInfo
\* returned, flag / text = the boolean and the reason returned, aux = other
\* values of the call
LcRes(op, key, info, flag, text, aux) ==
    [op |-> op, key |-> key, info |-> info, flag |-> flag, text |-> text,
     aux |-> aux]
NoLcRes == LcRes("init", <<>>, DefaultInfo, FALSE, "", <<>>)

\* faulty variant: a validated key starts a fresh usage count
CheckKeyState_ResetsUsage(c, info) ==
    IF info.is_valid THEN [c EXCEPT !.has = TRUE, !.info = info, !.count = 0]
    ELSE c

\* check_license_key: _license_info is assigned on the valid path only
CheckKeyState(c, info) ==
    IF info.is_valid THEN [c EXCEPT !.has = TRUE, !.info = info] ELSE c

\* the file at license_path: missing, or its text
NoLicFile == [exists |-> FALSE, content |-> <<>>]
LicFile(content) == [exists |-> TRUE, content |-> content]
LicFiles == {NoLicFile, LicFile(<<>>), LicFile(<<" ", "\n">>),
             LicFile(KeyFloorTrial2025 \o <<"\n">> \o KeyTrial2020 \o <<"\n">>),
             LicFile(KeyFloorEnt2026)}

\* check_license_file: the key read from the file, examined at instant t
CheckLicenseFile(f, t) ==
    IF ~f.exists THEN [key |-> <<>>, info |-> ErrorInfo("License file not found")]
    ELSE LET lines == SplitLines(Strip(f.content)) IN
         IF Len(lines) < 1
         THEN [key |-> <<>>, info |-> ErrorInfo("Empty license file")]
         ELSE [key |-> Strip(lines[1]),
               info |-> CheckLicenseKey(Strip(lines[1]), t)]

\* check_env_license: <<>> is an unset (or empty) variable
CheckEnvLicense(v, t) ==
    IF v = <<>> THEN ErrorInfo("Environment variable not set")
    ELSE CheckLicenseKey(v, t)

\* has_feature
HasFeature(c, feature) ==
    IF ~c.has THEN FALSE ELSE \E i \in DOMAIN c.info.features :
                                  c.info.features[i] = feature

\* faulty variant: the expiry of the recorded license is not looked at
CanMakeRequest_IgnoresExpiry(c, t) ==
    IF ~c.has \/ ~c.info.is_valid THEN <<FALSE, "No valid license">>
    ELSE IF c.info.max_requests > 0 /\ c.count >= c.info.max_requests
    THEN <<FALSE, "Request limit exceeded">>
    ELSE <<TRUE, "OK">>

\* faulty variant: the quota is compared with > instead of >=
CanMakeRequest_OffByOne(c, t) ==
    IF ~c.has \/ ~c.info.is_valid THEN <<FALSE, "No valid license">>
    ELSE IF c.info.expires # NoInstant /\ After(t, c.info.expires)
    THEN <<FALSE, "License expired">>
    ELSE IF c.info.max_requests > 0 /\ c.count > c.info.max_requests
    THEN <<FALSE, "Request limit exceeded">>
    ELSE <<TRUE, "OK">>

\* can_make_request at instant t: (allowed, reason)
CanMakeRequest(c, t) ==
    IF ~c.has \/ ~c.info.is_valid THEN <<FALSE, "No valid license">>
    ELSE IF c.info.expires # NoInstant /\ After(t, c.info.expires)
    THEN <<FALSE, "License expired">>
    ELSE IF c.info.max_requests > 0 /\ c.count >= c.info.max_requests
    THEN <<FALSE, "Request limit exceeded">>
    ELSE <<TRUE, "OK">>

\* get_usage: requests_made, requests_limit, requests_remaining
GetUsage(c) ==
    <<c.count,
      IF c.has THEN c.info.max_requests ELSE 0,
      IF c.has /\ c.info.max_requests > 0
      THEN c.info.max_requests - c.count ELSE -1>>

\* the value of the QUANTUM_FLOOR_LICENSE variable: <<>> is unset
EnvValues == {<<>>, KeyTrial2025}

\* check_license_key, check_license_file and check_env_license tabulated
\* over the inputs the callers pass and the instants of the clock, so that
\* each input is parsed once
Lookup(table, x, t) == (CHOOSE e \in table : e[2] = t /\ e[1] = x)[3]
KeyTable  == {<<key, t, CheckLicenseKey(key, t)>> :
                 key \in LcKeys, t \in Instants}
FileTable == {<<f, t, CheckLicenseFile(f, t)>> : f \in LicFiles, t \in Instants}
EnvTable  == {<<v, t, CheckEnvLicense(v, t)>> : v \in EnvValues, t \in Instants}
CheckAt(key, t) == Lookup(KeyTable, key, t)

\* ---- actions ----

LcCheckKey ==
    \E key \in LcKeys :
        LET info == CheckAt(key, now) IN
        /\ lc' = CheckKeyState(lc, info)
        /\ lcRes' = LcRes("check_license_key", key, info, info.is_valid, "", <<>>)
        /\ UNCHANGED <<now, outsideLc>>

\* check_license_key on a key of fewer than three segments
ShortKeys == {KeyEmpty, KeyGarbage, KeyTwoParts}
LcCheckShortKey ==
    \E key \in ShortKeys :
        LET info == CheckLicenseKey(key, now) IN
        /\ lc' = CheckKeyState(lc, info)
        /\ lcRes' = LcRes("check_license_key", key, info, info.is_valid, "", <<>>)
        /\ UNCHANGED <<now, outsideLc>>

\* get_license_info(license_key): check_license_key on a new LicenseChecker
LcGetLicenseInfo ==
    \E key \in LcKeys :
        LET info == CheckAt(key, now) IN
        /\ lcRes' = LcRes("get_license_info", key, info, info.is_valid, "", <<>>)
        /\ UNCHANGED <<lc, now, outsideLc>>

\* the expiry years generate() can have computed at an instant up to t
IssuedYears(t) == {ExpireYear(i, crosses) :
                      i \in {j \in Instants : ~After(j, t)}, crosses \in BOOLEAN}

\* get_license_info(LicenseGenerator().generate(config)) for a key generated
\* at an instant up to now; aux keeps the fields the key was generated from
LcCheckGenerated ==
    \E model \in ModelNames, ltype \in LicenseTypes,
       hash \in {NoCustomer} \cup CustomerHashes, year \in IssuedYears(now) :
        LET key  == Generate(model, ltype, year, hash)
            info == CheckLicenseKey(key, now)
        IN
        /\ lcRes' = LcRes("generate_check", key, info, info.is_valid, "",
                          <<model, ltype, year, hash>>)
        /\ UNCHANGED <<lc, now, outsideLc>>

LcCheckFile ==
    \E f \in LicFiles :
        LET o == Lookup(FileTable, f, now) IN
        /\ lc' = CheckKeyState(lc, o.info)
        /\ lcRes' = LcRes("check_license_file", o.key, o.info, o.info.is_valid,
                          "", f)
        /\ UNCHANGED <<now, outsideLc>>

LcCheckEnv ==
    \E v \in EnvValues :
        LET info == Lookup(EnvTable, v, now) IN
        /\ lc' = CheckKeyState(lc, info)
        /\ lcRes' = LcRes("check_env_license", v, info, info.is_valid, "", <<>>)
        /\ UNCHANGED <<now, outsideLc>>

LcHasFeature ==
    \E feature \in FeatureNames :
        /\ lcRes' = LcRes("has_feature", <<>>, DefaultInfo,
                          HasFeature(lc, feature), feature, <<>>)
        /\ UNCHANGED <<lc, now, outsideLc>>

LcCanMakeRequest ==
    LET r == CanMakeRequest(lc, now) IN
    /\ lcRes' = LcRes("can_make_request", <<>>, DefaultInfo, r[1], r[2], <<>>)
    /\ UNCHANGED <<lc, now, outsideLc>>

LcRecordRequest ==
    /\ lc.count < MaxCount
    /\ lc' = [lc EXCEPT !.count = @ + 1]
    /\ lcRes' = LcRes("record_request", <<>>, DefaultInfo, FALSE, "", <<>>)
    /\ UNCHANGED <<now, outsideLc>>

LcResetUsage ==
    /\ lc' = [lc EXCEPT !.count = 0]
    /\ lcRes' = LcRes("reset_usage", <<>>, DefaultInfo, FALSE, "", <<>>)
    /\ UNCHANGED <<now, outsideLc>>

LcGetUsage ==
    /\ lcRes' = LcRes("get_usage", <<>>, DefaultInfo, FALSE, "", GetUsage(lc))
    /\ UNCHANGED <<lc, now, outsideLc>>

\* time passes
Tick ==
    /\ \E t \in Instants : After(t, now) /\ now' = t
    /\ lcRes' = LcRes("tick", <<>>, DefaultInfo, FALSE, "", <<>>)
    /\ UNCHANGED <<lc, outsideLc>>

---------------------------------------------------------------------------
(* Callers sharing one LicenseChecker (license_check.py)                   *)
(* Each caller runs can_make_request and, when allowed, record_request.    *)
(* The checker holds no lock; in mode "locked" the callers wrap the pair   *)
(* in a lock of their own, in mode "bare" they do not.  Each method call   *)
(* is one step.                                                            *)

NumCallers == 2  \* callers sharing the checker
Callers    == 1..NumCallers

\* no caller has started: every caller is before its can_make_request
NoCallers == [mode |-> "none", pc |-> [c \in Callers |-> "idle"],
              holder |-> 0, granted |-> 0]

\* the callers start working, with or without a lock around each pair
RcStart ==
    /\ rc.mode = "none" /\ lc.has
    /\ \E m \in {"bare", "locked"} : rc' = [rc EXCEPT !.mode = m]
    /\ lcRes' = LcRes("start", <<>>, DefaultInfo, FALSE, "", <<>>)
    /\ UNCHANGED <<lc, now, outsideRc>>

\* can_make_request by caller c (after taking the callers' lock, if any)
RcCanMakeRequest(c) ==
    LET r == CanMakeRequest(lc, now) IN
    /\ rc.mode # "none" /\ rc.pc[c] = "idle"
    /\ rc.mode = "locked" => rc.holder = 0
    /\ rc' = [rc EXCEPT !.pc[c] = IF r[1] THEN "allowed" ELSE "idle",
                        !.holder = IF rc.mode = "locked" /\ r[1] THEN c ELSE 0,
                        !.granted = IF r[1] THEN @ + 1 ELSE @]
    /\ lcRes' = LcRes("can_make_request", <<>>, DefaultInfo, r[1], r[2], <<>>)
    /\ UNCHANGED <<lc, now, outsideRc>>

\* record_request by caller c (the callers' lock, if any, is released)
RcRecordRequest(c) ==
    /\ rc.pc[c] = "allowed" /\ lc.count < MaxCount
    /\ lc' = [lc EXCEPT !.count = @ + 1]
    /\ rc' = [rc EXCEPT !.pc[c] = "idle", !.holder = 0]
    /\ lcRes' = LcRes("record_request", <<>>, DefaultInfo, FALSE, "", <<>>)
    /\ UNCHANGED <<now, outsideRc>>

\* the license is checked before the callers start
RcCheckKey == rc.mode = "none" /\ LcCheckKey

---------------------------------------------------------------------------
(* SelfDestructSystem (self_destruct.py) *)

MaxEvents    == 2  \* tamper events are recorded while the log is shorter
MaxCallbacks == 2  \* add_callback is modelled while fewer are registered

\* protected_paths, and what a file at such a path can hold
ProtectedPaths == <<"model.bin", "lock.bin">>
Missing  == "missing"
Contents == {"v1", "v2"}

\* hashlib.sha256 of a file's content, taken as collision-free
Sha(content) == <<"sha256", content>>

\* the tracer of the process: none, a debugger, or not readable (another
\* platform, or /proc/self/status cannot be read)
Tracers == {"none", "debugger", "unreadable"}

\* a callback returns, raises an Exception, or raises SystemExit (sys.exit)
CallbackKinds == {"returns", "raises", "exits"}

\* TamperEvent (the timestamp is left out)
TamperEvent(type, severity, path) ==
    [event_type |-> type, severity |-> severity, file_path |-> path]

\* __init__; _integrity_hashes is kept as the list of its (path, hash)
\* items in insertion order, which is the order a dict iterates in
NewSystem == [hashes |-> <<>>, events |-> <<>>, callbacks |-> <<>>,
              armed |-> FALSE, triggered |-> FALSE]

\* outcome of a call: ret = value returned, err = exception that left the
\* call, calls = callbacks invoked in order, body = the body of trigger ran
SdResult(op, ret, err, calls, body) ==
    [op |-> op, ret |-> ret, err |-> err, calls |-> calls, body |-> body]
NoSdRes == SdResult("init", FALSE, "", <<>>, FALSE)

\* d[path] = hash on the list of items of a dict
DictSet(d, path, hash) ==
    IF \E i \in DOMAIN d : d[i][1] = path
    THEN [i \in DOMAIN d |-> IF d[i][1] = path THEN <<path, hash>> ELSE d[i]]
    ELSE Append(d, <<path, hash>>)

\* arm: the hashes after the loop over protected_paths[i..]
RECURSIVE ArmHashes(_, _, _)
ArmHashes(d, files, i) ==
    IF i > Len(ProtectedPaths) THEN d
    ELSE LET path == ProtectedPaths[i] IN
         ArmHashes(IF files[path] # Missing
                   THEN DictSet(d, path, Sha(files[path])) ELSE d,
                   files, i + 1)

\* faulty variant: arming starts the system afresh
Arm_Rearms(x, files) ==
    [x EXCEPT !.hashes = ArmHashes(x.hashes, files, 1), !.armed = TRUE,
              !.triggered = FALSE]

\* arm
Arm(x, files) ==
    [x EXCEPT !.hashes = ArmHashes(x.hashes, files, 1), !.armed = TRUE]

\* faulty variant: disarming forgets the baseline
Disarm_ClearsBaseline(x) == [x EXCEPT !.armed = FALSE, !.hashes = <<>>]

\* disarm
Disarm(x) == [x EXCEPT !.armed = FALSE]

\* faulty variant: the baseline survives
ClearMemory_KeepsHashes(x) == x

\* _clear_memory
ClearMemory(x) == [x EXCEPT !.hashes = <<>>]

\* faulty variant: trigger() without the "already triggered" guard
Trigger_NoGuard(x) ==
    [sys  |-> ClearMemory([x EXCEPT !.triggered = TRUE]),
     body |-> TRUE, err |-> "SystemExit"]

\* trigger: the system after the call, whether the body ran, and the
\* exception sys.exit(1) raises
Trigger(x) ==
    IF x.triggered THEN [sys |-> x, body |-> FALSE, err |-> ""]
    ELSE [sys  |-> ClearMemory([x EXCEPT !.triggered = TRUE]),
          body |-> TRUE, err |-> "SystemExit"]

\* the steps of a _record_tamper call, in the order they are taken
StepAppend      == <<"append", 0>>
StepCallback(i) == <<"callback", i>>
StepTrigger     == <<"trigger", 0>>

\* faulty variant: the loop over the callbacks ends at the first one that
\* raises
RECURSIVE RunCallbacks_StopsAtRaise(_, _, _)
RunCallbacks_StopsAtRaise(cbs, i, steps) ==
    IF i > Len(cbs) THEN [steps |-> steps, err |-> ""]
    ELSE IF cbs[i] = "exits"
    THEN [steps |-> Append(steps, StepCallback(i)), err |-> "SystemExit"]
    ELSE IF cbs[i] = "raises"
    THEN [steps |-> Append(steps, StepCallback(i)), err |-> ""]
    ELSE RunCallbacks_StopsAtRaise(cbs, i + 1, Append(steps, StepCallback(i)))

\* the loop over _callbacks from position i on: an Exception raised by a
\* callback is swallowed; SystemExit is not an Exception and leaves the loop
RECURSIVE RunCallbacks(_, _, _)
RunCallbacks(cbs, i, steps) ==
    IF i > Len(cbs) THEN [steps |-> steps, err |-> ""]
    ELSE IF cbs[i] = "exits"
    THEN [steps |-> Append(steps, StepCallback(i)), err |-> "SystemExit"]
    ELSE RunCallbacks(cbs, i + 1, Append(steps, StepCallback(i)))

\* _record_tamper: the event is appended, the callbacks are invoked, then
\* trigger() on fatal severity; calls lists the steps taken
RecordTamper(x, type, severity, path) ==
    LET logged == [x EXCEPT !.events = Append(@, TamperEvent(type, severity, path))]
        loop   == RunCallbacks(x.callbacks, 1, <<StepAppend>>)
    IN IF loop.err # ""
       THEN [sys |-> logged, calls |-> loop.steps, body |-> FALSE,
             err |-> loop.err]
       ELSE IF severity = "fatal"
       THEN LET t == Trigger(logged) IN
            [sys |-> t.sys, calls |-> Append(loop.steps, StepTrigger),
             body |-> t.body, err |-> t.err]
       ELSE [sys |-> logged, calls |-> loop.steps, body |-> FALSE, err |-> ""]

\* check_integrity: the first item of the baseline, from position i on,
\* whose file is missing or changed; 0 when there is none
RECURSIVE FirstBroken(_, _, _)
FirstBroken(d, files, i) ==
    IF i > Len(d) THEN 0
    ELSE IF files[d[i][1]] = Missing \/ Sha(files[d[i][1]]) # d[i][2] THEN i
    ELSE FirstBroken(d, files, i + 1)

\* faulty variant: the files are checked whether armed or not
CheckIntegrity_IgnoresArmed(x, files) ==
    LET i == FirstBroken(x.hashes, files, 1) IN
    IF i = 0
    THEN [sys |-> x, ret |-> TRUE, calls |-> <<>>, body |-> FALSE, err |-> ""]
    ELSE LET r == RecordTamper(x, "file_modified", "critical", x.hashes[i][1])
         IN [sys |-> r.sys, ret |-> FALSE, calls |-> r.calls, body |-> r.body,
             err |-> r.err]

CheckIntegrity(x, files) ==
    LET i == IF x.armed THEN FirstBroken(x.hashes, files, 1) ELSE 0 IN
    IF i = 0
    THEN [sys |-> x, ret |-> TRUE, calls |-> <<>>, body |-> FALSE, err |-> ""]
    ELSE LET path == x.hashes[i][1]
             r == RecordTamper(x, IF files[path] = Missing THEN "file_missing"
                                                            ELSE "file_modified",
                               "critical", path)
         IN [sys |-> r.sys, ret |-> FALSE, calls |-> r.calls, body |-> r.body,
             err |-> r.err]

\* check_debugger: SystemExit is not an Exception, so it leaves the call
CheckDebugger(x, tracer) ==
    IF tracer # "debugger"
    THEN [sys |-> x, ret |-> TRUE, calls |-> <<>>, body |-> FALSE, err |-> ""]
    ELSE LET r == RecordTamper(x, "debugger_detected", "fatal", "") IN
         [sys |-> r.sys, ret |-> FALSE, calls |-> r.calls, body |-> r.body,
          err |-> r.err]

\* list.reverse()
Reverse(l) == [i \in DOMAIN l |-> l[Len(l) + 1 - i]]

\* faulty variant: get_events hands out the log itself
GetEvents_NoCopy(x) == [alias |-> TRUE, list |-> x.events]

\* get_events: a copy of the list (alias = the list is the log itself)
GetEvents(x) == [alias |-> FALSE, list |-> x.events]
NoSnap == [alias |-> FALSE, list |-> <<>>]

\* ---- actions ----

\* the sequence as a set
PathSet == {ProtectedPaths[i] : i \in DOMAIN ProtectedPaths}

SdArm ==
    /\ sd' = Arm(sd, sdEnv.files)
    /\ sdRes' = SdResult("arm", FALSE, "", <<>>, FALSE)
    /\ UNCHANGED <<sdEnv, sdRuns, sdSnap, outsideSd>>

SdDisarm ==
    /\ sd' = Disarm(sd)
    /\ sdRes' = SdResult("disarm", FALSE, "", <<>>, FALSE)
    /\ UNCHANGED <<sdEnv, sdRuns, sdSnap, outsideSd>>

SdCheckIntegrity ==
    LET r == CheckIntegrity(sd, sdEnv.files) IN
    /\ r.ret \/ Len(sd.events) < MaxEvents
    /\ sd' = r.sys
    /\ sdRes' = SdResult("check_integrity", r.ret, r.err, r.calls, r.body)
    /\ sdRuns' = IF r.body THEN sdRuns + 1 ELSE sdRuns
    /\ UNCHANGED <<sdEnv, sdSnap, outsideSd>>

SdCheckDebugger ==
    LET r == CheckDebugger(sd, sdEnv.tracer) IN
    /\ r.ret \/ Len(sd.events) < MaxEvents
    /\ sd' = r.sys
    /\ sdRes' = SdResult("check_debugger", r.ret /\ r.err = "", r.err, r.calls,
                         r.body)
    /\ sdRuns' = IF r.body THEN sdRuns + 1 ELSE sdRuns
    /\ UNCHANGED <<sdEnv, sdSnap, outsideSd>>

SdAddCallback ==
    /\ Len(sd.callbacks) < MaxCallbacks
    /\ \E kind \in CallbackKinds :
           sd' = [sd EXCEPT !.callbacks = Append(@, kind)]
    /\ sdRes' = SdResult("add_callback", FALSE, "", <<>>, FALSE)
    /\ UNCHANGED <<sdEnv, sdRuns, sdSnap, outsideSd>>

SdTrigger ==
    LET r == Trigger(sd) IN
    /\ sd' = r.sys
    /\ sdRes' = SdResult("trigger", FALSE, r.err, <<>>, r.body)
    /\ sdRuns' = IF r.body THEN sdRuns + 1 ELSE sdRuns
    /\ UNCHANGED <<sdEnv, sdSnap, outsideSd>>

\* the model file, the first protected path, is rewritten or removed from
\* outside
SdWriteModelFile ==
    /\ \E path \in {ProtectedPaths[1]} :
         \E c \in (Contents \cup {Missing}) \ {sdEnv.files[path]} :
            sdEnv' = [sdEnv EXCEPT !.files[path] = c]
    /\ sdRes' = SdResult("env", FALSE, "", <<>>, FALSE)
    /\ UNCHANGED <<sd, sdRuns, sdSnap, outsideSd>>

\* any protected file is rewritten, created or removed from outside
SdWriteFile ==
    /\ \E path \in PathSet :
         \E c \in (Contents \cup {Missing}) \ {sdEnv.files[path]} :
            sdEnv' = [sdEnv EXCEPT !.files[path] = c]
    /\ sdRes' = SdResult("env", FALSE, "", <<>>, FALSE)
    /\ UNCHANGED <<sd, sdRuns, sdSnap, outsideSd>>

\* get_events: the caller now holds the returned list
SdGetEvents ==
    /\ sdSnap' = GetEvents(sd)
    /\ sdRes' = SdResult("get_events", FALSE, "", <<>>, FALSE)
    /\ UNCHANGED <<sd, sdEnv, sdRuns, outsideSd>>

\* the caller changes the list it holds (clear, pop, reverse); a list that
\* is the log itself changes the log with it
SdChangeSnapshot ==
    /\ sdSnap.list # <<>>
    /\ \E new \in {<<>>, SubSeq(sdSnap.list, 1, Len(sdSnap.list) - 1),
                   Reverse(sdSnap.list)} \ {sdSnap.list} :
          /\ sdSnap' = [sdSnap EXCEPT !.list = new]
          /\ sd' = IF sdSnap.alias THEN [sd EXCEPT !.events = new] ELSE sd
    /\ sdRes' = SdResult("env", FALSE, "", <<>>, FALSE)
    /\ UNCHANGED <<sdEnv, sdRuns, outsideSd>>

\* a debugger attaches to the process or leaves it
SdSetTracer ==
    /\ \E t \in Tracers \ {sdEnv.tracer} : sdEnv' = [sdEnv EXCEPT !.tracer = t]
    /\ sdRes' = SdResult("env", FALSE, "", <<>>, FALSE)
    /\ UNCHANGED <<sd, sdRuns, sdSnap, outsideSd>>

---------------------------------------------------------------------------
(* IntegrityVerifier (integrity_verifier.py) *)

\* the files that can exist under base_path: one at the top, one in the
\* directory "sub"
IvFiles == {"a.bin", "sub/b.bin"}
IvDirs  == {".", "sub"}
Under(f, dir) == dir = "." \/ (dir = "sub" /\ f = "sub/b.bin")

\* what a file holds: its bytes, or IvMissing when it does not exist
IvMissing  == <<-1>>
IvContents == {<<1>>, <<2>>, <<1, 2>>}

\* a path string is either relative to base_path or the resolved spelling
RelPath(f) == <<"rel", f>>
AbsPath(f) == <<"abs", f>>
IvPaths == {RelPath(f) : f \in IvFiles} \cup {AbsPath(f) : f \in IvFiles}

\* _resolve_path
ResolvePath(p) == <<"abs", p[2]>>

\* hashlib.sha256 over the bytes, taken as collision-free; hexdigest() has
\* HexDigestLen characters
HexDigestLen == 64
Sha256(bytes) == <<"sha256", bytes>>
NoHash == <<"none", <<>>>>
DigestLen(d) == IF d[1] = "sha256" THEN HexDigestLen ELSE 0

\* faulty variant: only the first chunk read is hashed
CalculateHash_FirstChunk(files, p) ==
    LET c == files[ResolvePath(p)[2]] IN
    IF c = IvMissing THEN [ok |-> FALSE, hex |-> NoHash, err |-> "FileNotFoundError"]
    ELSE [ok |-> TRUE, hex |-> Sha256(<<c[1]>>), err |-> ""]

\* calculate_hash: every chunk of the file at the resolved path is hashed
CalculateHash(files, p) ==
    LET c == files[ResolvePath(p)[2]] IN
    IF c = IvMissing THEN [ok |-> FALSE, hex |-> NoHash, err |-> "FileNotFoundError"]
    ELSE [ok |-> TRUE, hex |-> Sha256(c), err |-> ""]

\* IntegrityResult
IntegrityResult(valid, path, expected, actual, error) ==
    [is_valid |-> valid, file_path |-> path, expected_hash |-> expected,
     actual_hash |-> actual, error |-> error]

\* faulty variant: a missing file passes
VerifyFile_MissingPasses(files, p, expected) ==
    LET path == ResolvePath(p) IN
    IF files[path[2]] = IvMissing
    THEN IntegrityResult(TRUE, path, expected, NoHash, "")
    ELSE LET actual == CalculateHash(files, path).hex IN
         IntegrityResult(actual = expected, path, expected, actual, "")

\* verify_file
VerifyFile(files, p, expected) ==
    LET path == ResolvePath(p) IN
    IF files[path[2]] = IvMissing
    THEN IntegrityResult(FALSE, path, expected, NoHash, "File not found")
    ELSE LET actual == CalculateHash(files, path).hex IN
         IntegrityResult(actual = expected, path, expected, actual, "")

\* __init__
NewVerifier == [manifest |-> <<>>]

\* create_manifest: the dict after file_paths[i..]; a path that cannot be
\* hashed is skipped
RECURSIVE ManifestOf(_, _, _, _)
ManifestOf(d, files, paths, i) ==
    IF i > Len(paths) THEN d
    ELSE LET h == CalculateHash(files, paths[i]) IN
         ManifestOf(IF h.ok THEN DictSet(d, paths[i], h.hex) ELSE d,
                    files, paths, i + 1)

CreateManifest(v, files, paths) ==
    [v EXCEPT !.manifest = ManifestOf(<<>>, files, paths, 1)]

\* the manifest document of save_manifest; NoDoc when the file is missing
NoDoc == [algorithm |-> "none", files |-> <<>>]
ManifestDoc(v) == [algorithm |-> "sha256", files |-> v.manifest]

\* load_manifest
LoadManifest(v, doc) ==
    IF doc = NoDoc THEN [v |-> v, ok |-> FALSE, err |-> "FileNotFoundError"]
    ELSE [v |-> [v EXCEPT !.manifest = doc.files], ok |-> TRUE, err |-> ""]

\* the results of the loop over the items of a manifest
VerifyItems(files, items) ==
    [i \in DOMAIN items |-> VerifyFile(files, items[i][1], items[i][2])]

\* all_valid after the loop over results
AllValid(results) == \A i \in DOMAIN results : results[i].is_valid

\* verify_manifest
VerifyManifest(v, files, doc) ==
    LET l == LoadManifest(v, doc) IN
    IF ~l.ok THEN [v |-> v, ok |-> FALSE, err |-> l.err, all_valid |-> FALSE,
                   results |-> <<>>]
    ELSE LET results == VerifyItems(files, l.v.manifest) IN
         [v |-> l.v, ok |-> TRUE, err |-> "", all_valid |-> AllValid(results),
          results |-> results]

\* glob under dir_path, filtered by os.path.isfile: the resolved spellings
\* of the files present under the directory
GlobFiles(files, dir) ==
    {AbsPath(f) : f \in {g \in IvFiles : Under(g, dir) /\ files[g] # IvMissing}}

\* the orders in which glob can list a set of paths
Orders(S) ==
    {o \in [1..Cardinality(S) -> S] : \A i, j \in DOMAIN o : o[i] = o[j] => i = j}

\* the hash the manifest holds for a path string, <<>> when it is no key
InManifest(d, p) == \E i \in DOMAIN d : d[i][1] = p
ManifestHash(d, p) == d[CHOOSE i \in DOMAIN d : d[i][1] = p][2]

\* select the elements of a sequence that satisfy Test
RECURSIVE KeysOnly(_, _)
KeysOnly(d, listed) ==
    IF listed = <<>> THEN <<>>
    ELSE IF InManifest(d, Head(listed))
         THEN <<Head(listed)>> \o KeysOnly(d, Tail(listed))
         ELSE KeysOnly(d, Tail(listed))

\* faulty variant: a listed file that is no key of the manifest fails
VerifyDirectory_UnknownFails(v, files, listed) ==
    LET results == [i \in DOMAIN listed |->
                      IF InManifest(v.manifest, listed[i])
                      THEN VerifyFile(files, listed[i],
                                      ManifestHash(v.manifest, listed[i]))
                      ELSE IntegrityResult(FALSE, listed[i], NoHash, NoHash, "Unknown")]
    IN [all_valid |-> AllValid(results), results |-> results]

\* verify_directory on the files glob listed
VerifyDirectory(v, files, listed) ==
    LET checked == KeysOnly(v.manifest, listed)
        results == [i \in DOMAIN checked |->
                      VerifyFile(files, checked[i],
                                 ManifestHash(v.manifest, checked[i]))]
    IN [all_valid |-> AllValid(results), results |-> results]

\* outcome of a call
IvResult(op, arg, ok, err, all_valid, results) ==
    [op |-> op, arg |-> arg, ok |-> ok, err |-> err, all_valid |-> all_valid,
     results |-> results]
NoIvRes == IvResult("init", <<>>, FALSE, "", FALSE, <<>>)

\* argument file_paths of create_manifest
ManifestInputs ==
    {<<>>, <<AbsPath("a.bin")>>, <<RelPath("sub/b.bin")>>,
     <<RelPath("a.bin"), AbsPath("sub/b.bin")>>,
     <<AbsPath("sub/b.bin"), AbsPath("a.bin")>>}

\* ---- actions ----

IvCalculateHash ==
    \E p \in IvPaths :
       LET h == CalculateHash(ivEnv.files, p) IN
       /\ ivRes' = IvResult("calculate_hash", p, h.ok, h.err, FALSE, <<h.hex>>)
       /\ ivHashLog' = IF h.ok
                       THEN ivHashLog \cup {<<ivEnv.files[p[2]], h.hex>>}
                       ELSE ivHashLog
       /\ UNCHANGED <<verifier, ivEnv, outsideIv>>

IvVerifyFile ==
    \E p \in IvPaths, c \in IvContents :
       LET r == VerifyFile(ivEnv.files, p, Sha256(c)) IN
       /\ ivRes' = IvResult("verify_file", p, TRUE, "", r.is_valid, <<r>>)
       /\ UNCHANGED <<verifier, ivEnv, ivHashLog, outsideIv>>

IvCreateManifest ==
    \E paths \in ManifestInputs :
       /\ verifier' = CreateManifest(verifier, ivEnv.files, paths)
       /\ ivRes' = IvResult("create_manifest", paths, TRUE, "", FALSE, <<>>)
       /\ UNCHANGED <<ivEnv, ivHashLog, outsideIv>>

IvSaveManifest ==
    /\ ivEnv' = [ivEnv EXCEPT !.doc = ManifestDoc(verifier)]
    /\ ivRes' = IvResult("save_manifest", <<>>, TRUE, "", FALSE, <<>>)
    /\ UNCHANGED <<verifier, ivHashLog, outsideIv>>

IvLoadManifest ==
    LET l == LoadManifest(verifier, ivEnv.doc) IN
    /\ verifier' = l.v
    /\ ivRes' = IvResult("load_manifest", <<>>, l.ok, l.err, FALSE, <<>>)
    /\ UNCHANGED <<ivEnv, ivHashLog, outsideIv>>

IvVerifyManifest ==
    LET r == VerifyManifest(verifier, ivEnv.files, ivEnv.doc) IN
    /\ verifier' = r.v
    /\ ivRes' = IvResult("verify_manifest", <<>>, r.ok, r.err, r.all_valid,
                         r.results)
    /\ UNCHANGED <<ivEnv, ivHashLog, outsideIv>>

IvVerifyDirectory ==
    \E dir \in IvDirs :
       \E listed \in Orders(GlobFiles(ivEnv.files, dir)) :
          LET r == VerifyDirectory(verifier, ivEnv.files, listed) IN
          /\ ivRes' = IvResult("verify_directory", dir, TRUE, "", r.all_valid,
                               r.results)
          /\ UNCHANGED <<verifier, ivEnv, ivHashLog, outsideIv>>

\* a file under base_path is written, created or removed from outside
IvWriteFile ==
    /\ \E f \in IvFiles :
         \E c \in (IvContents \cup {IvMissing}) \ {ivEnv.files[f]} :
            ivEnv' = [ivEnv EXCEPT !.files[f] = c]
    /\ ivRes' = IvResult("env", <<>>, FALSE, "", FALSE, <<>>)
    /\ UNCHANGED <<verifier, ivHashLog, outsideIv>>

---------------------------------------------------------------------------
(* ActivationDatabase and ActivationHandler (activation_server.py) *)

MaxReactivations == 1  \* a row is activated again while its
                       \* activation_count is at most this

\* the activation limit of _handle_activate
ActivationLimit == 3

\* license keys and machine ids of the requests; NoField is a field that is
\* missing from the request body or empty
ActKeys     == {"K1", "K2"}
ActMachines == {"m1", "m2", "m3", "m4"}
NoField     == "none"

\* the (license_key, machine_id) pairs the requests name
ActPairs == ({"K1"} \X ActMachines) \cup {<<"K2", "m1">>}

\* now + timedelta(days=365): a year later, no leap day in between
PlusYear(t) == <<t[1] + 1, t[2]>>

\* a row of the table activations; present = the row exists
NoRow == [present |-> FALSE, is_active |-> FALSE, activation_count |-> 0,
          activated_at |-> <<0, 0>>, expires_at |-> <<0, 0>>]
NewRow(t) == [present |-> TRUE, is_active |-> TRUE, activation_count |-> 1,
              activated_at |-> t, expires_at |-> PlusYear(t)]

\* _init_db on a new database file
EmptyDb == [p \in ActPairs |-> NoRow]

\* ActivationRecord
ActivationRecord(k, m, at, expires, active, count) ==
    [license_key |-> k, machine_id |-> m, activated_at |-> at,
     expires_at |-> expires, is_active |-> active, activation_count |-> count]
NoRecord == ActivationRecord(NoField, NoField, <<0, 0>>, <<0, 0>>, FALSE, 0)

\* ActivationDatabase.activate: the table afterwards and the record returned
DbActivate(db, k, m, t) ==
    [db  |-> [db EXCEPT ![<<k, m>>] =
                IF @.present
                THEN [@ EXCEPT !.is_active = TRUE,
                               !.activation_count = @ + 1]
                ELSE NewRow(t)],
     rec |-> ActivationRecord(k, m, t, PlusYear(t), TRUE, 1)]

\* ActivationDatabase.validate
DbValidate(db, k, m, t) ==
    LET row == db[<<k, m>>] IN
    IF ~(row.present /\ row.is_active) THEN NoRecord
    ELSE IF After(t, row.expires_at) THEN NoRecord
    ELSE ActivationRecord(k, m, row.activated_at, row.expires_at,
                          row.is_active, row.activation_count)

\* ActivationDatabase.deactivate: the table afterwards and affected > 0
DbDeactivate(db, k, m) ==
    [db  |-> [db EXCEPT ![<<k, m>>] =
                IF @.present THEN [@ EXCEPT !.is_active = FALSE] ELSE @],
     ret |-> db[<<k, m>>].present]

\* ActivationDatabase.get_activation_count
GetActivationCount(db, k) ==
    Cardinality({p \in ActPairs : p[1] = k /\ db[p].present /\ db[p].is_active})

\* a response: HTTP status, the error message, and the body fields
Response(status, error, flag, rec) ==
    [status |-> status, error |-> error, flag |-> flag, rec |-> rec]

MissingField(k, m) == k = NoField \/ m = NoField

\* faulty variant: the limit is tested with >
HandleActivate_OffByOne(db, k, m, t) ==
    IF MissingField(k, m)
    THEN [db |-> db, resp |-> Response(400, "Missing license_key or machine_id",
                                       FALSE, NoRecord)]
    ELSE IF GetActivationCount(db, k) > ActivationLimit
    THEN [db |-> db, resp |-> Response(403, "Activation limit reached",
                                       FALSE, NoRecord)]
    ELSE LET a == DbActivate(db, k, m, t) IN
         [db |-> a.db, resp |-> Response(200, "", TRUE, a.rec)]

\* _handle_activate
HandleActivate(db, k, m, t) ==
    IF MissingField(k, m)
    THEN [db |-> db, resp |-> Response(400, "Missing license_key or machine_id",
                                       FALSE, NoRecord)]
    ELSE IF GetActivationCount(db, k) >= ActivationLimit
    THEN [db |-> db, resp |-> Response(403, "Activation limit reached",
                                       FALSE, NoRecord)]
    ELSE LET a == DbActivate(db, k, m, t) IN
         [db |-> a.db, resp |-> Response(200, "", TRUE, a.rec)]

\* _handle_validate
HandleValidate(db, k, m, t) ==
    IF MissingField(k, m)
    THEN Response(400, "Missing license_key or machine_id", FALSE, NoRecord)
    ELSE LET rec == DbValidate(db, k, m, t) IN
         Response(200, "", rec # NoRecord, rec)

\* _handle_deactivate
HandleDeactivate(db, k, m) ==
    IF MissingField(k, m)
    THEN [db |-> db, resp |-> Response(400, "Missing license_key or machine_id",
                                       FALSE, NoRecord)]
    ELSE LET d == DbDeactivate(db, k, m) IN
         [db |-> d.db, resp |-> Response(200, "", d.ret, NoRecord)]

\* the request bodies: a pair of the table, or a body with a field missing
ActRequests ==
    ActPairs \cup {<<NoField, "m1">>, <<"K1", NoField>>}

AdbResult(op, k, m, resp) == [op |-> op, key |-> k, machine |-> m, resp |-> resp]
NoAdbRes == AdbResult("init", NoField, NoField, Response(0, "", FALSE, NoRecord))

\* ---- actions: one POST request handled from start to end ----

PostActivate ==
    \E q \in ActRequests :
       LET h == HandleActivate(adb, q[1], q[2], now) IN
       /\ IF MissingField(q[1], q[2]) THEN TRUE
          ELSE adb[q].activation_count <= MaxReactivations
       /\ adb' = h.db
       /\ adbRes' = AdbResult("activate", q[1], q[2], h.resp)
       /\ UNCHANGED outsideAdb

PostValidate ==
    \E q \in ActRequests :
       /\ adbRes' = AdbResult("validate", q[1], q[2],
                              HandleValidate(adb, q[1], q[2], now))
       /\ UNCHANGED <<adb, outsideAdb>>

PostDeactivate ==
    \E q \in ActRequests :
       LET h == HandleDeactivate(adb, q[1], q[2]) IN
       /\ adb' = h.db
       /\ adbRes' = AdbResult("deactivate", q[1], q[2], h.resp)
       /\ UNCHANGED outsideAdb

---------------------------------------------------------------------------
(* Specifications *)

InitNow  == now = <<FirstYear, 0>>
InitLock == /\ lockFile = NoFile
            /\ lk = NoLock
            /\ lkRes = NoRes
            /\ lkTampered = FALSE
            /\ lkLastLic = NoLic
            /\ lkVerifiedOnce = FALSE
InitFm   == /\ fm = NewFm
            /\ fmRes = NoRes
            /\ fmCleared = FALSE

InitLc   == /\ lc = NewChecker
            /\ lcRes = NoLcRes

InitSd   == /\ sd = NewSystem
            /\ sdEnv = [files  |-> [p \in PathSet |->
                                      IF p = ProtectedPaths[1] THEN "v1"
                                                               ELSE Missing],
                        tracer |-> "none"]
            /\ sdRes = NoSdRes
            /\ sdRuns = 0
            /\ sdSnap = NoSnap

InitIv   == /\ verifier = NewVerifier
            /\ ivEnv = [files |-> [f \in IvFiles |-> <<1>>], doc |-> NoDoc]
            /\ ivRes = NoIvRes
            /\ ivHashLog = {}

InitAdb  == /\ adb = EmptyDb
            /\ adbRes = NoAdbRes

InitRc   == rc = NoCallers

Init == /\ InitNow /\ InitLock /\ InitFm /\ InitLc /\ InitSd /\ InitIv
        /\ InitAdb /\ InitRc

NextLock ==
    \/ GenerateLock \/ EncryptModel \/ WriteLockFile \/ Construct
    \/ VerifyLicense \/ Encrypt \/ Decrypt \/ VerifyIntegrity \/ Close

NextCipher ==
    \/ FmGenerateKey \/ FmLoadKey \/ FmDeriveKey \/ FmEncrypt \/ FmDecrypt
    \/ FmEncryptFile \/ FmDecryptFile \/ FmDecryptToMemory
    \/ FmRotateEncrypt \/ FmClear

NextRotation ==
    \/ FmGenerateKey \/ FmLoadKey \/ FmSetupKeyRotation \/ FmEncrypt
    \/ FmDecrypt \/ FmEncryptFile \/ FmDecryptFile \/ FmDecryptToMemory
    \/ FmRotateEncrypt \/ FmClear

NextLicenseKeys ==
    \/ LcGetLicenseInfo \/ LcCheckGenerated \/ Tick

NextLicense ==
    \/ LcCheckKey \/ LcCheckFile \/ LcCheckEnv \/ LcHasFeature
    \/ LcCanMakeRequest \/ LcRecordRequest \/ LcResetUsage \/ LcGetUsage
    \/ Tick

NextShortKeys ==
    \/ LcCheckKey \/ LcCheckShortKey \/ LcHasFeature \/ LcCanMakeRequest
    \/ Tick

NextDestruct ==
    \/ SdArm \/ SdDisarm \/ SdCheckIntegrity \/ SdCheckDebugger
    \/ SdAddCallback \/ SdTrigger \/ SdWriteModelFile \/ SdSetTracer

NextBaseline ==
    \/ SdArm \/ SdDisarm \/ SdCheckIntegrity \/ SdTrigger \/ SdWriteFile

NextTamperLog ==
    \/ SdArm \/ SdDisarm \/ SdCheckIntegrity \/ SdCheckDebugger \/ SdTrigger
    \/ SdWriteModelFile \/ SdSetTracer \/ SdGetEvents \/ SdChangeSnapshot

NextHash ==
    \/ IvCalculateHash \/ IvVerifyFile \/ IvWriteFile

NextManifest ==
    \/ IvCreateManifest \/ IvSaveManifest \/ IvLoadManifest
    \/ IvVerifyManifest \/ IvVerifyDirectory \/ IvWriteFile

NextActivation ==
    \/ PostActivate \/ PostDeactivate

NextValidation ==
    \/ PostActivate \/ PostValidate \/ PostDeactivate

NextCallers ==
    \/ RcCheckKey \/ RcStart
    \/ \E c \in Callers :
          RcCanMakeRequest(c) \/ RcRecordRequest(c)

Next == NextLock \/ NextCipher \/ NextRotation \/ NextLicenseKeys
        \/ NextLicense \/ NextDestruct \/ NextBaseline \/ NextTamperLog
        \/ NextHash \/ NextManifest \/ NextActivation \/ NextValidation
        \/ NextShortKeys \/ NextCallers

\* one QuantumLock and its lock file
SpecLock   == Init /\ [][NextLock]_vars
\* one FernetManager whose keys are generated, loaded or derived
SpecCipher == Init /\ [][NextCipher]_vars
\* one FernetManager whose keys are generated, loaded or set up for rotation
SpecRotation == Init /\ [][NextRotation]_vars
\* keys, also freshly generated ones, examined as time passes
SpecLicenseKeys == Init /\ [][NextLicenseKeys]_vars
\* one LicenseChecker and its usage counter as time passes
SpecLicense == Init /\ [][NextLicense]_vars
\* one LicenseChecker given well-formed and too short keys
SpecShortKeys == Init /\ [][NextShortKeys]_vars
\* one SelfDestructSystem, its protected files and the process tracer
SpecDestruct == Init /\ [][NextDestruct]_vars
\* one SelfDestructSystem whose protected files all change from outside
SpecBaseline == Init /\ [][NextBaseline]_vars
\* one SelfDestructSystem and a caller reading its tamper log
SpecTamperLog == Init /\ [][NextTamperLog]_vars
\* files under base_path hashed and verified one at a time
SpecHash == Init /\ [][NextHash]_vars
\* one IntegrityVerifier, its manifest file and the files it names
SpecManifest == Init /\ [][NextManifest]_vars
\* the activation server handling /activate and /deactivate requests one
\* at a time
SpecActivation == Init /\ [][NextActivation]_vars
\* the same with /validate requests
SpecValidation == Init /\ [][NextValidation]_vars
\* callers sharing one LicenseChecker, with and without a lock of their own
SpecCallers == Init /\ [][NextCallers]_vars
Spec       == Init /\ [][Next]_vars

---------------------------------------------------------------------------
(* Claims about QuantumLock, under SpecLock *)

\* C1: whenever decrypt has returned plaintext, the license key most
\* recently passed to verify_license on the instance is valid now under
\* the LicenseChecker rules (well-formed and not expired).
C1_DecryptNeedsValidLicense ==
    (lkRes.op = "decrypt" /\ lkRes.ok) => LicenseValid(lkLastLic, now)

\* C2: a decrypt returns plaintext only if verify_license has returned True
\* on the instance since construction and since the last close(); otherwise
\* it raises the not-verified RuntimeError, returns nothing and changes
\* neither the instance nor the lock file.
C2_DecryptNeedsVerify ==
    [][ lkRes'.op = "decrypt" =>
          /\ lkRes'.ok => lkVerifiedOnce
          /\ ~lkVerifiedOnce =>
                /\ ~lkRes'.ok
                /\ lkRes'.err = "RuntimeError"
                /\ lkRes'.val = NoData
                /\ lkRes'.alerts = 0
                /\ lk' = lk
                /\ lockFile' = lockFile
                /\ lkTampered' = lkTampered ]_vars

C2_Witness ==
    /\ lkRes.op = "decrypt" /\ lkRes.err = "RuntimeError"
    /\ lk.alive /\ ~lkVerifiedOnce
    /\ lkRes.arg.t = "tok" /\ lkRes.arg.ok /\ lockFile.exists
    /\ lkRes.arg.k = lockFile.payload

\* C3: once the tamper hook has run on an instance, no encrypt, decrypt or
\* verify_license on that instance succeeds.
C3_TamperFlaggedIsTerminal ==
    lkTampered =>
        /\ ~(lkRes.op \in {"encrypt", "decrypt"} /\ lkRes.ok)
        /\ ~(lkRes.op = "verify_license" /\ lkRes.ret)

\* ciphertext that fails authentication under key k: not a token, an
\* altered token, or a token made under another key
FailsAuthentication(k, x) == x.t # "tok" \/ ~x.ok \/ x.k # k

\* C4: on a verified lock, a decrypt of ciphertext that fails authentication
\* calls the tamper hook exactly once, raises InvalidToken and returns no
\* bytes.
C4_BadCiphertextAlertsOnce ==
    (lkRes.op = "decrypt" /\ lk.verified /\ lk.fernet # NoKey
        /\ FailsAuthentication(lk.fernet, lkRes.arg))
    => /\ ~lkRes.ok
       /\ lkRes.err = "InvalidToken"
       /\ lkRes.val = NoData
       /\ lkRes.alerts = 1
       /\ lkTampered

C4_Witness ==
    /\ lkRes.op = "decrypt" /\ lk.verified
    /\ lkRes.arg.t = "tok" /\ lkRes.arg.k = lk.fernet /\ ~lkRes.arg.ok
    /\ lkRes.err = "InvalidToken"

\* the lock file's embedded key loads
KeyLoads(f) == f.exists /\ StartsWithMagic(f) /\ FernetAccepts(f.payload)

ValidLockArtifact(f) ==
    f.exists /\ StartsWithMagic(f) /\ FileLen(f) = MagicLen + KeyLen

\* C6 as stated: construction succeeds iff the file is a valid LockArtifact
\* (magic prefix and length len(magic) + len(key)), fails with NotFound
\* when the file is missing and with InvalidFormat when the prefix is absent.
C6_ConstructIffValidArtifact ==
    lkRes.op = "construct" =>
        /\ lkRes.ok <=> ValidLockArtifact(lockFile)
        /\ ~lockFile.exists => lkRes.err = "FileNotFoundError"
        /\ (lockFile.exists /\ ~StartsWithMagic(lockFile))
              => lkRes.err = "ValueError"

\* C6 amended: construction succeeds iff the file exists and starts with
\* the 16-byte magic prefix, whatever follows it; it fails with NotFound
\* when the file is missing and with InvalidFormat when the prefix is
\* absent, regardless of the payload length.
C6_ConstructIffMagicPrefix ==
    lkRes.op = "construct" =>
        /\ lkRes.ok <=> (lockFile.exists /\ StartsWithMagic(lockFile))
        /\ ~lockFile.exists => (~lkRes.ok /\ lkRes.err = "FileNotFoundError")
        /\ (lockFile.exists /\ ~StartsWithMagic(lockFile))
              => (~lkRes.ok /\ lkRes.err = "ValueError")

C6_Witness ==
    /\ lkRes.op = "construct" /\ lkRes.ok
    /\ FileLen(lockFile) # MagicLen + KeyLen

\* the lock was verified against the file generate_lock wrote
BoundToGenerated == lockFile.gen /\ lk.alive /\ lk.verified
                    /\ lk.fernet = lockFile.payload

\* C7: a file written by generate_lock starts with the magic prefix;
\* constructing a lock from it succeeds and verify_license returns True;
\* then encrypt(b) differs from b and decrypt(encrypt(b)) = b, and a token
\* made by a FernetManager loaded with the returned key decrypts to its
\* plaintext.
C7_GeneratedLockRoundTrip ==
    /\ lockFile.gen => (StartsWithMagic(lockFile) /\ ValidLockArtifact(lockFile))
    /\ (lkRes.op = "generate_lock" /\ lkRes.ok)
          => (lockFile.gen /\ lockFile.payload = lkRes.val.k)
    /\ (lockFile.gen /\ lkRes.op = "construct") => (lkRes.ok /\ lk = NewLock)
    /\ (lockFile.gen /\ lkRes.op = "verify_license")
          => (lkRes.ret /\ BoundToGenerated)
    /\ (BoundToGenerated /\ lkRes.op = "encrypt")
          => /\ lkRes.ok
             /\ lkRes.val # lkRes.arg
             /\ LockDecryptOutcome(lk, lkRes.val).ok
             /\ LockDecryptOutcome(lk, lkRes.val).val = lkRes.arg
    /\ (BoundToGenerated /\ lkRes.op = "decrypt"
          /\ \E b \in Buffers, iv \in IVs :
                lkRes.arg = FmEncryptOutcome(LoadKey(NewFm, lockFile.payload),
                                             b, iv).val)
          => (lkRes.ok /\ lkRes.val = Raw(lkRes.arg.p))

C7_Witness ==
    /\ BoundToGenerated /\ lkRes.op = "decrypt" /\ lkRes.ok
    /\ lkRes.val = Raw(1)

---------------------------------------------------------------------------
(* Claims about FernetManager, under SpecCipher and SpecRotation *)

\* C8: with an active key, decrypt(encrypt(b)) = b while the key is not
\* changed: the token encrypt has just returned decrypts to b in the same
\* state, and a decrypt of a token encrypt makes in this state has returned
\* its plaintext.
C8_RoundTrip ==
    /\ (fmRes.op = "encrypt" /\ fm.fernet # NoKey)
          => /\ fmRes.ok
             /\ FmDecryptOutcome(fm, fmRes.val).ok
             /\ FmDecryptOutcome(fm, fmRes.val).val = fmRes.arg
    /\ (fmRes.op = "decrypt" /\ fm.fernet # NoKey
          /\ \E b \in Buffers, iv \in IVs :
                fmRes.arg = FmEncryptOutcome(fm, b, iv).val)
          => (fmRes.ok /\ fmRes.val = Raw(fmRes.arg.p))

C8_Witness ==
    /\ fmRes.op = "decrypt" /\ fmRes.ok /\ fmRes.val = Raw(1)
    /\ fm.fernet[1] = "kdf" /\ fm.key = fm.fernet

\* the keys of the manager: the active key and the rotation list
ActiveSet(m) == ({m.fernet} \cup Range(m.multi)) \ {NoKey}

C10_RotationDecryptsOldKeys ==
    (fm.multi # <<>> /\ fm.fernet = fm.multi[1]) =>
        /\ (fmRes.op = "decrypt" /\ fmRes.arg.t = "tok" /\ fmRes.arg.ok
               /\ fmRes.arg.k \in Range(fm.multi))
              => (fmRes.ok /\ fmRes.val = Raw(fmRes.arg.p))
        /\ fmRes.op = "encrypt" => (fmRes.ok /\ fmRes.val.k = fm.multi[1])

\* C11: with rotation configured, rotate_encrypt of an intact token made
\* under a key of the rotation list returns a token of the same plaintext
\* that decrypts under the new key and under no other key (so no longer
\* under the old key it was made with), and the manager's decrypt returns
\* that plaintext; without configured rotation rotate_encrypt raises and
\* returns no data.
C11_RotateRewrapsUnderNewKey ==
    fmRes.op = "rotate_encrypt" =>
        /\ fm.multi = <<>>
              => (~fmRes.ok /\ fmRes.err = "ValueError" /\ fmRes.val = NoData)
        /\ (fm.multi # <<>> /\ fmRes.arg.t = "tok" /\ fmRes.arg.ok
               /\ fmRes.arg.k \in Range(fm.multi))
              => /\ fmRes.ok
                 /\ fmRes.val.t = "tok"
                 /\ FernetDecrypt(fm.multi[1], fmRes.val) = Raw(fmRes.arg.p)
                 /\ \A k \in (GenKeys \cup Range(fm.multi)) \ {fm.multi[1]} :
                        ~FernetDecrypts(k, fmRes.val)
                 /\ fm.fernet = fm.multi[1]
                       => FmDecryptOutcome(fm, fmRes.val).val = Raw(fmRes.arg.p)
        /\ fmRes.ok <=> fmRes.val # NoData

C11_Witness ==
    /\ fmRes.op = "rotate_encrypt" /\ fmRes.ok
    /\ Len(fm.multi) = 2 /\ fm.fernet = fm.multi[1]
    /\ fmRes.arg.k = fm.multi[2] /\ fm.multi[2] # fm.multi[1]
    /\ fmRes.val.k = fm.multi[1] /\ fmRes.val.p = 1

\* the crypto operations of the manager
CryptoOps == {"encrypt", "decrypt", "encrypt_file", "decrypt_file",
              "decrypt_to_memory", "rotate_encrypt"}

\* C12 as stated: from clear() until generate_key, load_key,
\* derive_key_from_password or setup_key_rotation is called again, no key
\* material is held and every crypto operation fails with the
\* not-initialized error (ValueError) and produces no output.
C12_ClearedFailsNotInitialized ==
    fmCleared =>
        /\ fm = NewFm
        /\ fmRes.op \in CryptoOps =>
              /\ ~fmRes.ok /\ fmRes.val = NoData /\ ~fmRes.ret
              /\ fmRes.err = "ValueError"

\* C12 amended: from clear() until a key is set up again, no key material
\* is held and every crypto operation fails and produces no output: with
\* the not-initialized error (ValueError), except that encrypt_file,
\* decrypt_file and decrypt_to_memory fail with FileNotFoundError when
\* the input file does not exist, because they open it before they reach
\* the cipher.
C12_ClearedFailsBeforeOutput ==
    fmCleared =>
        /\ fm = NewFm
        /\ fmRes.op \in CryptoOps =>
              /\ ~fmRes.ok /\ fmRes.val = NoData /\ ~fmRes.ret
              /\ fmRes.err = IF fmRes.arg = NoData THEN "FileNotFoundError"
                                                   ELSE "ValueError"
              /\ fmRes.arg = NoData
                    => fmRes.op \in {"encrypt_file", "decrypt_file",
                                     "decrypt_to_memory"}

C12_Witness ==
    /\ fmCleared /\ fmRes.op = "decrypt_to_memory"
    /\ fmRes.arg.t = "tok" /\ fmRes.arg.ok /\ fmRes.err = "ValueError"

---------------------------------------------------------------------------
(* Claims about license keys, under SpecLicenseKeys *)

\* the set of the features of a LicenseInfo
FeatureSet(info) == {info.features[i] : i \in DOMAIN info.features}

\* C13: every LicenseInfo returned with is_valid = true has a type among
\* trial, standard and enterprise and exactly the features and the quota
\* fixed for it: trial {api} and 1000, standard {api, voice, batch} and
\* 100000, enterprise {api, voice, batch, unlimited} and -1.
C13_TypeFixesFeaturesAndQuota ==
    (lcRes.op \in {"get_license_info", "generate_check"} /\ lcRes.info.is_valid)
    => /\ lcRes.info.license_type \in LicenseTypes
       /\ lcRes.info.license_type = TypeTrial
             => (FeatureSet(lcRes.info) = {"api"}
                 /\ lcRes.info.max_requests = 1000)
       /\ lcRes.info.license_type = TypeStandard
             => (FeatureSet(lcRes.info) = {"api", "voice", "batch"}
                 /\ lcRes.info.max_requests = 100000)
       /\ lcRes.info.license_type = TypeEnterprise
             => (FeatureSet(lcRes.info) = {"api", "voice", "batch", "unlimited"}
                 /\ lcRes.info.max_requests = -1)

\* C14: for a key generate() made from a model name, a license type and an
\* optional customer id, check_license_key derives the type and the expiry
\* year the key was generated from.
C14_GeneratedKeyParsesBack ==
    lcRes.op = "generate_check"
    => /\ lcRes.info.license_type = lcRes.aux[2]
       /\ lcRes.info.expires = <<lcRes.aux[3], 1>>

\* the year a key carries: its last segment, when that is a number a date
\* can hold and the key has at least 3 segments; 0 otherwise
KeyYear(key) ==
    LET parts == Split(key)
        last  == parts[Len(parts)]
    IN IF Len(parts) >= 3 /\ IsDigit(last) /\ ToInt(last) \in 1..9999
       THEN ToInt(last) ELSE 0

\* C15: a key with expiry year Y is found valid at every instant up to and
\* including Dec 31 23:59:59 of Y, and invalid with the error "License has
\* expired" at every instant strictly after it.
C15_ValidThroughEndOfYear ==
    LET y == KeyYear(lcRes.key) IN
    (lcRes.op \in {"get_license_info", "generate_check"} /\ y > 0)
    => /\ lcRes.info.is_valid
             <=> (now[1] < y \/ (now[1] = y /\ now[2] <= 1))
       /\ ~lcRes.info.is_valid => lcRes.info.error = "License has expired"
       /\ lcRes.info.is_valid => lcRes.info.error = ""

C15_Witness ==
    /\ lcRes.op = "get_license_info" /\ lcRes.key = KeyTrial2025
    /\ now = <<FirstYear, 1>> /\ lcRes.info.is_valid

---------------------------------------------------------------------------
(* Claims about LicenseChecker, under SpecLicense *)

\* C16: can_make_request refuses, with a reason, exactly when no valid
\* license is recorded, or now is after the recorded expiry, or
\* max_requests > 0 and the usage counter has reached it; otherwise it
\* allows; the call changes no state.
C16_CanMakeRequestDecision ==
    [][ lcRes'.op = "can_make_request" =>
          LET e == lc.info.expires
              refuse == \/ ~lc.has
                        \/ ~lc.info.is_valid
                        \/ now[1] > e[1] \/ (now[1] = e[1] /\ now[2] > e[2])
                        \/ (lc.info.max_requests > 0
                              /\ lc.count >= lc.info.max_requests)
          IN /\ lcRes'.flag = ~refuse
             /\ refuse => lcRes'.text \notin {"", "OK"}
             /\ lc' = lc /\ now' = now ]_vars

C16_Witness ==
    /\ lcRes.op = "can_make_request" /\ ~lcRes.flag
    /\ lcRes.text = "License expired"
    /\ lc.has /\ lc.count < lc.info.max_requests

\* C17: with a valid unexpired license of quota N > 0 recorded,
\* can_make_request allows while the counter is below N and returns
\* (false, "Request limit exceeded") once it has reached N, and the counter
\* stays at or above N until reset_usage; with max_requests = -1 it never
\* refuses for quota.
C17_QuotaEnforced ==
    [][ LET n == lc.info.max_requests
            unexpired == now[1] < lc.info.expires[1]
                         \/ (now[1] = lc.info.expires[1]
                               /\ now[2] <= lc.info.expires[2])
        IN
        /\ (lcRes'.op = "can_make_request" /\ lc.has /\ lc.info.is_valid
               /\ unexpired)
              => /\ (n > 0 /\ lc.count < n) => lcRes'.flag
                 /\ (n > 0 /\ lc.count >= n)
                       => (~lcRes'.flag /\ lcRes'.text = "Request limit exceeded")
                 /\ n = -1 => lcRes'.flag
        /\ (lc.has /\ n > 0 /\ lc.count >= n /\ lcRes'.op # "reset_usage"
               /\ lc'.info = lc.info)
              => lc'.count >= n ]_vars

C17_Witness ==
    /\ lcRes.op = "can_make_request" /\ ~lcRes.flag
    /\ lcRes.text = "Request limit exceeded"
    /\ lc.count = lc.info.max_requests

\* C18: the usage counter changes only through record_request, by exactly
\* +1 whatever the quota, and through reset_usage, to 0; every other
\* operation, validating a key included, leaves it unchanged.
C18_CounterFrame ==
    [][ /\ lcRes'.op = "record_request"
              => (lc'.count = lc.count + 1
                  /\ lc'.has = lc.has /\ lc'.info = lc.info)
        /\ lcRes'.op = "reset_usage" => lc'.count = 0
        /\ lcRes'.op \notin {"record_request", "reset_usage"}
              => lc'.count = lc.count ]_vars

C18_Witness ==
    /\ lcRes.op = "check_license_key" /\ lcRes.flag
    /\ lc.info.max_requests > 0 /\ lc.count > lc.info.max_requests

---------------------------------------------------------------------------
(* Claims about SelfDestructSystem, under SpecDestruct *)

\* C19: once is_triggered is true it is true in every later state,
\* whatever is called on the system afterwards.
C19_TriggeredIsTerminal ==
    [][ sd.triggered => sd'.triggered ]_vars

C19_Witness ==
    /\ sd.triggered /\ sd.armed /\ sdRes.op = "arm"
    /\ sd.hashes # <<>>

---------------------------------------------------------------------------
(* Claims about the baseline and the tamper log of SelfDestructSystem *)

\* positions of the baseline whose file is missing or hashes differently
Broken(d, files) ==
    {i \in DOMAIN d : \/ files[d[i][1]] = Missing
                       \/ <<"sha256", files[d[i][1]]>> # d[i][2]}

\* C21: check_integrity returns False exactly when the system is armed and
\* some baselined path is missing or hashes differently from its baseline;
\* a False result appends exactly one critical event for the first such
\* path in the order of the baseline ("file_missing" or "file_modified"),
\* and a True result, every call while disarmed included, appends nothing.
C21_CheckIntegrityResult ==
    [][ sdRes'.op = "check_integrity" =>
          LET broken == Broken(sd.hashes, sdEnv.files)
              fails  == sd.armed /\ broken # {}
          IN /\ sdRes'.ret <=> ~fails
             /\ ~fails => sd'.events = sd.events
             /\ fails =>
                  LET i == CHOOSE i \in broken : \A j \in broken : i <= j
                      path == sd.hashes[i][1]
                  IN sd'.events = Append(sd.events,
                        [event_type |-> IF sdEnv.files[path] = Missing
                                        THEN "file_missing"
                                        ELSE "file_modified",
                         severity |-> "critical", file_path |-> path]) ]_vars

C21_Witness ==
    /\ sdRes.op = "check_integrity" /\ ~sdRes.ret
    /\ Len(sd.hashes) = 2 /\ Broken(sd.hashes, sdEnv.files) = {1, 2}
    /\ sd.hashes[1][1] = ProtectedPaths[2]
    /\ sd.events[Len(sd.events)].file_path = ProtectedPaths[2]
    /\ sd.events[Len(sd.events)].event_type = "file_missing"

\* the baseline stored for a path, "none" when there is none
Baseline(d, path) ==
    IF \E i \in DOMAIN d : d[i][1] = path
    THEN d[CHOOSE i \in DOMAIN d : d[i][1] = path][2]
    ELSE "none"

\* C22: arm() raises nothing, stores the current hash of every protected
\* path that exists, leaves the entry of every missing path as it was (none
\* on a system without baseline) and sets armed; disarm() clears armed and
\* leaves the baseline unchanged.
C22_ArmBaselinesExistingPaths ==
    [][ /\ sdRes'.op = "arm" =>
             /\ sd'.armed /\ sdRes'.err = ""
             /\ \A p \in PathSet :
                   Baseline(sd'.hashes, p) =
                     IF sdEnv.files[p] # Missing
                     THEN <<"sha256", sdEnv.files[p]>>
                     ELSE Baseline(sd.hashes, p)
             /\ {sd'.hashes[i][1] : i \in DOMAIN sd'.hashes} =
                   {sd.hashes[i][1] : i \in DOMAIN sd.hashes}
                   \cup {p \in PathSet : sdEnv.files[p] # Missing}
             /\ sd'.events = sd.events /\ sd'.triggered = sd.triggered
        /\ sdRes'.op = "disarm" =>
             /\ ~sd'.armed /\ sdRes'.err = ""
             /\ sd'.hashes = sd.hashes ]_vars

C22_Witness ==
    /\ sdRes.op = "disarm" /\ ~sd.armed
    /\ Len(sd.hashes) = 1 /\ sd.hashes[1][1] = ProtectedPaths[1]
    /\ sdEnv.files[ProtectedPaths[2]] = Missing

\* C23: check_debugger returns True when no debugger is attached and when
\* the check cannot be made, and on a detection records a fatal
\* "debugger_detected" event and returns False; no exception leaves it.
C23_CheckDebuggerReturns ==
    sdRes.op = "check_debugger" =>
        /\ sdRes.err = ""
        /\ sdEnv.tracer # "debugger" => sdRes.ret
        /\ sdEnv.tracer = "debugger" =>
              /\ ~sdRes.ret
              /\ sd.events # <<>>
              /\ sd.events[Len(sd.events)].event_type = "debugger_detected"
              /\ sd.events[Len(sd.events)].severity = "fatal"

\* C24: the first trigger() sets triggered, empties the baseline and ends
\* in the exit of the process, and leaves every protected file as it was.
C24_TriggerKeepsFiles ==
    [][ (sdRes'.op = "trigger" /\ ~sd.triggered) =>
          /\ sd'.triggered
          /\ sd'.hashes = <<>>
          /\ sdRes'.err = "SystemExit"
          /\ sdEnv'.files = sdEnv.files ]_vars

C24_Witness ==
    /\ sdRes.op = "trigger" /\ sdRes.body /\ sd.triggered /\ sd.armed
    /\ sd.hashes = <<>>
    /\ \A p \in PathSet : sdEnv.files[p] # Missing

\* C25: the tamper log only grows at its end: a recorded tamper appends
\* exactly one event, every other operation leaves the log as it was, and
\* so does a change of the list get_events returned.
C25_LogAppendOnly ==
    [][ /\ Len(sd'.events) >= Len(sd.events)
        /\ SubSeq(sd'.events, 1, Len(sd.events)) = sd.events
        /\ IF sdRes'.op \in {"check_integrity", "check_debugger"}
              /\ ~sdRes'.ret
           THEN Len(sd'.events) = Len(sd.events) + 1
           ELSE sd'.events = sd.events ]_vars

C25_Witness ==
    /\ sdRes.op = "env" /\ Len(sd.events) = 2
    /\ sdSnap.list = <<sd.events[2], sd.events[1]>>
    /\ sd.events[1] # sd.events[2]

---------------------------------------------------------------------------
(* Claims about IntegrityVerifier, under SpecManifest and SpecHash *)

Checked(dir) ==
    {p \in {<<"abs", f>> : f \in {g \in IvFiles : Under(g, dir)}} :
        /\ ivEnv.files[p[2]] # IvMissing
        /\ InManifest(verifier.manifest, p)}

C28_HashStableAndSensitive ==
    /\ \A a \in ivHashLog, b \in ivHashLog : (a[1] = b[1]) <=> (a[2] = b[2])
    /\ \A a \in ivHashLog : DigestLen(a[2]) = 64
    /\ (ivRes.op = "calculate_hash" /\ ivRes.ok) =>
          <<ivEnv.files[ivRes.arg[2]], ivRes.results[1]>> \in ivHashLog

C28_Witness ==
    /\ ivRes.op = "calculate_hash" /\ ivRes.ok
    /\ {a[1] : a \in ivHashLog} = {<<1>>, <<1, 2>>, <<2>>}

---------------------------------------------------------------------------
(* Claims about the activation server, under SpecActivation *)

\* machine ids with an active activation of a license key
ActiveMachines(db, k) ==
    {p[2] : p \in {q \in ActPairs : q[1] = k /\ db[q].present /\ db[q].is_active}}

\* C29: with requests handled one at a time, no license key ever has more
\* than 3 machine ids with an active activation, and an /activate that
\* would make a 4th machine active is answered with an error and leaves the
\* table unchanged.
C29_AtMostThreeActive ==
    /\ [](\A k \in ActKeys : Cardinality(ActiveMachines(adb, k)) <= 3)
    /\ [][ (/\ adbRes'.op = "activate"
            /\ adbRes'.key \in ActKeys /\ adbRes'.machine \in ActMachines
            /\ Cardinality(ActiveMachines(adb, adbRes'.key)
                           \cup {adbRes'.machine}) > 3)
           => /\ adbRes'.resp.status = 403
              /\ adbRes'.resp.error # ""
              /\ adb' = adb ]_vars

C29_Witness ==
    /\ adbRes.op = "activate" /\ adbRes.resp.status = 403
    /\ adbRes.key = "K1"
    /\ Cardinality(ActiveMachines(adb, "K1")) = 3
    /\ adbRes.machine \notin ActiveMachines(adb, "K1")
    /\ adb[<<"K1", adbRes.machine>>].present

---------------------------------------------------------------------------
(* Claims about malformed license keys, under SpecShortKeys *)

\* number of dash-separated segments of a key
NumSegments(key) == Cardinality({i \in DOMAIN key : key[i] = "-"}) + 1

\* C30: check_license_key on a key of fewer than 3 segments returns a
\* LicenseInfo with is_valid = False and the error "Invalid license key
\* format", and leaves the checker as it was: no license is recorded and a
\* recorded one stays.
C30_ShortKeyRejected ==
    [][ (lcRes'.op = "check_license_key" /\ NumSegments(lcRes'.key) < 3)
        => /\ ~lcRes'.info.is_valid
           /\ lcRes'.info.error = "Invalid license key format"
           /\ ~lcRes'.flag
           /\ lc' = lc ]_vars

C30_Witness ==
    /\ lcRes.op = "check_license_key" /\ lcRes.key = KeyTwoParts
    /\ ~lcRes.info.is_valid
    /\ lc.has /\ lc.info.is_valid

\* the first line of a license file, without surrounding white space
FirstLine(content) == Strip(SplitLines(content)[1])

\* C31: check_license_file fails with "License file not found" when the
\* file is absent and with "Empty license file" when the file is blank
\* (empty or white space only); in every other case its result is that of
\* check_license_key on the first line of the file.
C31_CheckLicenseFileResult ==
    lcRes.op = "check_license_file"
    => LET f == lcRes.aux IN
       IF ~f.exists
       THEN ~lcRes.info.is_valid /\ lcRes.info.error = "License file not found"
       ELSE IF Strip(f.content) = <<>>
       THEN ~lcRes.info.is_valid /\ lcRes.info.error = "Empty license file"
       ELSE lcRes.info = CheckLicenseKey(FirstLine(f.content), now)

\* C32: derive_key_from_password(pw, salt) makes the derived key the active
\* key, uses the salt it is given and returns it, and yields key bytes that
\* depend on (pw, salt) only: a call with the password and the salt of the
\* call before it (also a salt that call drew itself) yields the same key,
\* and a token made under a derived key decrypts whenever that key has been
\* derived again.
C32_DeriveDeterministic ==
    [][ /\ fmRes'.op = "derive_key"
           => /\ fm'.key = fmRes'.val.k /\ fm'.fernet = fmRes'.val.k
              /\ fmRes'.val.k = Kdf(fmRes'.arg.iv, fmRes'.val.p)
              /\ fmRes'.arg.p # 0 => fmRes'.val.p = fmRes'.arg.p
              /\ ( /\ fmRes.op = "derive_key"
                   /\ fmRes'.arg.iv = fmRes.arg.iv
                   /\ fmRes'.arg.p = fmRes.val.p )
                 => fmRes'.val.k = fmRes.val.k
        /\ ( /\ fmRes'.op = "decrypt" /\ fmRes'.arg.t = "tok" /\ fmRes'.arg.ok
             /\ fmRes'.arg.k \in KdfKeys /\ fm'.fernet = fmRes'.arg.k )
           => fmRes'.ok /\ fmRes'.val = Raw(fmRes'.arg.p) ]_vars

C32_Witness ==
    /\ fmRes.op = "derive_key" /\ fmRes.arg.p # 0
    /\ fmRes.val.k = Kdf(fmRes.arg.iv, fmRes.arg.p)
    /\ fm.fernet = fmRes.val.k

---------------------------------------------------------------------------
(* Claims about the order of the steps of _record_tamper *)

\* the event a call has appended to the log
Recorded == sd'.events[Len(sd.events) + 1]

\* the position of the first callback that raises SystemExit, 0 if none
FirstExit(cbs) ==
    IF \E i \in DOMAIN cbs : cbs[i] = "exits"
    THEN CHOOSE i \in DOMAIN cbs :
             cbs[i] = "exits" /\ \A j \in 1..(i - 1) : cbs[j] # "exits"
    ELSE 0

---------------------------------------------------------------------------
(* Claims about callers sharing a LicenseChecker, under SpecCallers *)

\* C34: when every can_make_request / record_request pair of the callers
\* runs atomically (under a lock of the callers), the number of requests
\* granted never exceeds a quota N > 0; without such a lock the checker
\* does not prevent it (C34_Witness: more than N requests granted).
C34_AtomicPairsKeepQuota ==
    (rc.mode = "locked" /\ lc.info.max_requests > 0)
    => /\ rc.granted <= lc.info.max_requests
       /\ lc.count <= lc.info.max_requests

C34_Witness ==
    /\ rc.mode = "bare" /\ lc.has /\ lc.info.is_valid
    /\ lc.info.max_requests > 0
    /\ rc.granted > lc.info.max_requests

---------------------------------------------------------------------------
(* Claims about the verified flag of QuantumLock, under SpecLock *)

\* C35: whenever verify_license returns False the instance is unverified
\* afterwards (flag cleared, no cipher context), so an encrypt or decrypt
\* that follows raises the not-verified RuntimeError, also when an earlier
\* verify_license on the instance had returned True.
C35_FalseVerifyUnverifies ==
    [][ /\ (lkRes'.op = "verify_license" /\ ~lkRes'.ret)
           => (~lk'.verified /\ lk'.fernet = NoKey)
        /\ (lkRes.op = "verify_license" /\ ~lkRes.ret
              /\ lkRes'.op \in {"encrypt", "decrypt"})
           => (~lkRes'.ok /\ lkRes'.err = "RuntimeError") ]_vars

\* C36: in every state of an instance the verified flag is true if and
\* only if a cipher context is loaded, so encrypt and decrypt are enabled
\* in exactly the same states.
C36_VerifiedIffCipherLoaded ==
    /\ lk.verified <=> (lk.fernet # NoKey)
    /\ \A b \in Buffers, x \in Tokens({lk.fernet}) :
          (LockEncryptOutcome(lk, b, 0).err = "RuntimeError")
             <=> (LockDecryptOutcome(lk, x).err = "RuntimeError")

C36_Witness ==
    /\ lkRes.op = "verify_license" /\ ~lkRes.ret
    /\ lkVerifiedOnce /\ ~lk.verified /\ lk.fernet = NoKey
    /\ lockFile.exists /\ StartsWithMagic(lockFile)

---------------------------------------------------------------------------
(* Claims about the rotation set of FernetManager, under SpecRotation *)

\* C37: whenever rotate_encrypt succeeds, its output is a token under the
\* manager's current active key, which the same manager's decrypt turns
\* back into the plaintext.
C37_RotateOutputDecrypts ==
    (fmRes.op = "rotate_encrypt" /\ fmRes.ok)
    => /\ fmRes.val.k = fm.fernet
       /\ fmRes.val.k = fm.key
       /\ FmDecryptOutcome(fm, fmRes.val).ok
       /\ FmDecryptOutcome(fm, fmRes.val).val = Raw(fmRes.arg.p)

---------------------------------------------------------------------------
(* Claims about the license a LicenseChecker holds, under SpecLicense *)

\* C38: can_make_request and has_feature reflect the most recent
\* check_license_key: right after a check that returned is_valid = False,
\* can_make_request returns (False, "No valid license") and has_feature
\* returns False for every feature, also when an earlier key was accepted.
C38_InvalidCheckRevokes ==
    [][ (lcRes.op = "check_license_key" /\ ~lcRes.info.is_valid)
        => /\ lcRes'.op = "can_make_request"
                => (~lcRes'.flag /\ lcRes'.text = "No valid license")
           /\ lcRes'.op = "has_feature" => ~lcRes'.flag ]_vars

---------------------------------------------------------------------------
(* Claims about re-arming a SelfDestructSystem, under SpecBaseline *)

\* C39: arm() keeps the baseline hash first recorded for a path: an entry
\* of the baseline is never replaced by the hash of the content found at a
\* later arm(), so a file modified after the first arm() still differs
\* from its baseline at the next check_integrity made while armed.
C39_RearmKeepsBaseline ==
    [][ sdRes'.op = "arm"
        => \A i \in DOMAIN sd.hashes :
              \E j \in DOMAIN sd'.hashes : sd'.hashes[j] = sd.hashes[i] ]_vars

---------------------------------------------------------------------------
(* Claims about re-activation, under SpecValidation *)

\* C40: a validate that immediately follows a successful activate of the
\* same (license_key, machine_id) returns a record with the activated_at,
\* expires_at and activation_count of the record activate returned, for a
\* first activation and for a re-activation of an existing pair alike.
C40_ValidateAgreesWithActivate ==
    [][ ( /\ adbRes.op = "activate" /\ adbRes.resp.status = 200
          /\ adbRes'.op = "validate"
          /\ adbRes'.key = adbRes.key /\ adbRes'.machine = adbRes.machine )
        => /\ adbRes'.resp.rec # NoRecord
           /\ adbRes'.resp.rec.activated_at = adbRes.resp.rec.activated_at
           /\ adbRes'.resp.rec.expires_at = adbRes.resp.rec.expires_at
           /\ adbRes'.resp.rec.activation_count
                 = adbRes.resp.rec.activation_count ]_vars

=============================================================================
